---- MODULE Spec2Model ----
(***************************************************************************)
(* Model of the incremental summarization engine of line-summary-bot       *)
(* (src/index.js, the revision at lines 679-1544): the RateLimiter class,  *)
(* generateContentWithRetry, and the two batch-processing paths.           *)
(*                                                                         *)
(* These specifications share the variables:                               *)
(*   SpecRL     several callers interleave waitForSlot on one limiter;     *)
(*   SpecGen    one generateContentWithRetry call;                         *)
(*   SpecSelect the selection of the messages of one conversation;         *)
(*   SpecRun    one run of processChatsInBatches or                        *)
(*              processCollectionGroupChatsInBatches under handleEvent;    *)
(*   SpecEvent  invocations of the summarize command, with the run of each *)
(*              reduced to its selections and its outcome;                 *)
(*   SpecSplit  one call of splitIntoMessages;                             *)
(*   SpecBatch  a run over one batch of the handler's size;                *)
(*   SpecRunFair  SpecRun with the steps of the run never put off.         *)
(*   SpecHandle one event under handleEvent: the commands, the run, the     *)
(*              lookup of a code and the storing of the message;           *)
(*   SpecHandleFair  SpecHandle with no step put off for ever;             *)
(*   SpecSuccessive  invocations that come one after the other while       *)
(*              messages go on being stored;                               *)
(*   SpecConv   one event under the handler of lines 1545-1709.            *)
(* A variable a specification does not use keeps its initial value.        *)
(***************************************************************************)
EXTENDS Integers, Sequences, FiniteSets, TLC

(***************************************************************************)
(* Bounds of the model                                                     *)
(***************************************************************************)
NumCallers == 2        \* concurrent callers of waitForSlot (SpecRL)
MaxTime == 5           \* Date.now() ranges over 0..MaxTime (SpecRL)
MaxCalls == 4          \* waitForSlot calls issued in one behaviour (SpecRL)

\* The constructor arguments new RateLimiter(maxRequests, windowMs) is given
MaxRequestsChoices == {1, 2}
WindowMsChoices == {2, 3}

MaxLate == 1           \* a timer fires up to MaxLate ms after it is due (SpecGen, SpecRun)
NumEvents == 2         \* invocations of the summarize command (SpecEvent)


Callers == 1..NumCallers
Invocations == 1..NumEvents

\* The caller id under which the generation client uses the limiter
Self == CHOOSE p \in Callers : \A q \in Callers : p <= q

VARIABLES
  \* RateLimiter fields (src/index.js:736-740) and the clock
  maxRequests, windowMs, requests, now,
  \* position of each caller inside waitForSlot, and its pending timer
  wpc, wakeAt,
  \* history: one record per waitForSlot call, in the order the calls were issued
  calls, cur,
  \* generateContentWithRetry: its position, arguments and locals, the timer
  \* of its backoff sleep, what it returned or threw, and the history of its steps
  gpc, prompt, maxRetries, attempt, backoffUntil, genOutcome, trace,
  \* message selection on its own: the path, the stored messages, the
  \* watermark, the stage reached and the messages in hand
  selPath, selStore, selWatermark, selStage, selMessages,
  \* one run of a batch-processing function: its arguments, its position and
  \* locals, the timer of its inter-batch delay, the error that ended it, and
  \* the histories of the selections made and of the delivery calls
  event, path, chats, lastSummaryTimestamp, batchSize,
  rpc, batchI, idx, summaries, delayUntil, runError,
  batches, processed, deliveries,
  \* invocations of the summarize command: the commands collection, the
  \* position and locals of each invocation, and the history of their steps
  commands, epc, eWatermark, eIdx, elog,
  \* splitIntoMessages: its arguments, its locals lines, the position in the
  \* loop over them, currentMessage and messages, the history of the
  \* messages closed inside the loop, and the stage reached
  splitText, maxLength, splitLines, lineIdx, currentMessage, segments, closed, spc,
  \* handleEvent outside the run: its position, the text of the message, the
  \* codes of the cached sheet, and the history of the writes to the store
  hpc, messageText, cachedSheetsData, writes

rlVars == <<maxRequests, windowMs, requests, now, wpc, wakeAt, calls, cur>>
genVars == <<gpc, prompt, maxRetries, attempt, backoffUntil, genOutcome, trace>>

selVars == <<selPath, selStore, selWatermark, selStage, selMessages>>

runVars == <<event, path, chats, lastSummaryTimestamp, batchSize, rpc, batchI, idx, summaries,
             delayUntil, runError, batches, processed, deliveries>>

evVars == <<commands, epc, eWatermark, eIdx, elog>>

splVars == <<splitText, maxLength, splitLines, lineIdx, currentMessage, segments, closed, spc>>

hVars == <<hpc, messageText, cachedSheetsData, writes>>

vars == <<rlVars, genVars, selVars, runVars, evVars, splVars, hVars>>

\* The granted field of a call that has not been granted a slot yet
NotGranted == 0 - 1

(***************************************************************************)
(* RateLimiter (src/index.js:735-762)                                      *)
(***************************************************************************)
\* A filter that removes nothing
PruneKeepsAll(reqs, t, w) == reqs

\* this.requests.filter(time => now - time < this.windowMs)
PruneRequests(reqs, t, w) == SelectSeq(reqs, LAMBDA time : t - time < w)

\* The limit test with > in place of >=
AtLimitOffByOne(reqs, m) == Len(reqs) > m

\* if (this.requests.length >= this.maxRequests)
AtLimit(reqs, m) == Len(reqs) >= m

\* const waitTime = this.windowMs - (now - oldestRequest), oldestRequest = requests[0]
WaitTimeOf(reqs, t, w) == w - (t - reqs[1])

\* One synchronous execution of the body of waitForSlot by caller p (lines
\* 743-760): read the clock, prune, then either arm the timer, so that the
\* caller suspends, or record the request, so that the caller's promise
\* resolves.  log is the call history to extend and k the index of p's call.
WaitForSlotBody(p, log, k) ==
  LET pruned == PruneRequests(requests, now, windowMs) IN
  IF AtLimit(pruned, maxRequests) /\ WaitTimeOf(pruned, now, windowMs) > 0
  THEN /\ requests' = pruned
       /\ wpc' = [wpc EXCEPT ![p] = "sleeping"]
       /\ wakeAt' = [wakeAt EXCEPT ![p] = now + WaitTimeOf(pruned, now, windowMs)]
       /\ calls' = [log EXCEPT ![k].suspends = @ + 1]
  ELSE /\ requests' = Append(pruned, now)
       /\ wpc' = [wpc EXCEPT ![p] = "granted"]
       /\ wakeAt' = wakeAt
       /\ calls' = [log EXCEPT ![k].granted = now]

\* The history record of a call issued at the current time
NewCall == [issued |-> now, granted |-> NotGranted, suspends |-> 0]

\* A woken caller that records its request without looking at the window again
RecheckGrantsDirectly(p) ==
  /\ requests' = Append(requests, now)
  /\ wpc' = [wpc EXCEPT ![p] = "granted"]
  /\ wakeAt' = wakeAt
  /\ calls' = [calls EXCEPT ![cur[p]].granted = now]

\* return this.waitForSlot() (line 755): the woken caller runs the body again
Recheck(p) == WaitForSlotBody(p, calls, cur[p])

\* The timer of line 754 fires, at its due time or later
WakeWaitForSlot(p) ==
  /\ wpc[p] = "sleeping"
  /\ now >= wakeAt[p]
  /\ Recheck(p)
  /\ UNCHANGED <<maxRequests, windowMs, now, cur, genVars, selVars, evVars, splVars, hVars, runVars>>

(***************************************************************************)
(* generateContentWithRetry (src/index.js:769-808)                         *)
(***************************************************************************)
\* What the external call model.generateContent / response.text() can do: it
\* yields text, or throws an error.  An error is modelled by its message:
\* whether error.message is present (and not empty), and which of the
\* substrings that the code tests for it contains.
Markers == {"429", "TooManyRequests", "quota", "rate limit", "Rate limit exceeded"}
NoMessage == [present |-> FALSE, has |-> {}]
ErrorMessages == {NoMessage} \cup {[present |-> TRUE, has |-> {}]}
                   \cup {[present |-> TRUE, has |-> {m}] : m \in Markers}
CallResults == {[kind |-> "text", message |-> NoMessage]}
                 \cup {[kind |-> "error", message |-> m] : m \in ErrorMessages}

\* How long the external call takes, in ms
CallLatencies == {1, 400}

\* error.message.includes(marker)
Includes(message, marker) == marker \in message.has

\* The rate-limit test of lines 787-792
IsRateLimitError(message) ==
  /\ message.present
  /\ \/ Includes(message, "429")
     \/ Includes(message, "TooManyRequests")
     \/ Includes(message, "quota")
     \/ Includes(message, "rate limit")

\* Math.pow(2, attempt)
RECURSIVE Pow2(_)
Pow2(n) == IF n = 0 THEN 1 ELSE 2 * Pow2(n - 1)

\* A backoff that does not grow with the attempt number
BackoffFlat(att) == 2 * 1000

\* const waitTime = Math.pow(2, attempt) * 1000 (line 795)
Backoff(att) == Pow2(att) * 1000

\* The prompt argument: the conversation it is about (0 when the call is not
\* made by a run), the template, and the messages whose lines it carries
NoPrompt == [chat |-> 0, template |-> "none", lines |-> <<>>]

\* The error of line 800
RateLimitExceeded ==
  [kind |-> "error", message |-> [present |-> TRUE, has |-> {"Rate limit exceeded"}]]

\* A step of the history: what happened, in which attempt, when, the length
\* of a sleep, and the error caught
Event(ev, att, t, arg, r) == [ev |-> ev, attempt |-> att, at |-> t, arg |-> arg, err |-> r.message]
NoResult == [kind |-> "none", message |-> NoMessage]

\* The head of the loop body for attempt att (lines 770-773): waitForSlot is
\* called and runs synchronously up to its await.
BeginAttempt(att, steps) ==
  /\ attempt' = att
  /\ gpc' = "waitSlot"
  /\ trace' = Append(steps, Event("acquire", att, now, 0, NoResult))
  /\ cur' = [cur EXCEPT ![Self] = Len(calls) + 1]
  /\ WaitForSlotBody(Self, Append(calls, NewCall), Len(calls) + 1)

\* generateContentWithRetry(prompt, maxRetries) is entered (lines 769-770); a
\* loop that runs no attempt falls off the end of the function.  The history
\* notes for which conversation the call is made.
GenEnter(p, mr) ==
  LET entered == Append(trace, Event("enter", 0, now, p.chat, NoResult)) IN
  /\ prompt' = p
  /\ maxRetries' = mr
  /\ IF 1 <= mr
     THEN BeginAttempt(1, entered) /\ UNCHANGED <<backoffUntil, genOutcome>>
     ELSE /\ gpc' = "returned"
          /\ genOutcome' = [kind |-> "undefined", message |-> NoMessage]
          /\ trace' = entered
          /\ UNCHANGED <<requests, wpc, wakeAt, calls, cur, attempt, backoffUntil>>

\* The await of waitForSlot resumes and model.generateContent(prompt) is
\* called (lines 773-776)
GenInvoke ==
  /\ gpc = "waitSlot"
  /\ wpc[Self] = "granted"
  /\ gpc' = "calling"
  /\ wpc' = [wpc EXCEPT ![Self] = "idle"]
  /\ trace' = Append(trace, Event("invoke", attempt, now, 0, NoResult))
  /\ UNCHANGED <<maxRequests, windowMs, requests, now, wakeAt, calls, cur,
                 prompt, maxRetries, attempt, backoffUntil, genOutcome, selVars, evVars, splVars, hVars, runVars>>

\* The rate-limit branch of the catch block (lines 793-801), entered at time t
OnRateLimitError(r, t) ==
  IF attempt < maxRetries
  THEN /\ gpc' = "backoff"
       /\ backoffUntil' = t + Backoff(attempt)
       /\ trace' = trace \o <<Event("throttled", attempt, t, 0, r),
                              Event("sleep", attempt, t, Backoff(attempt), NoResult)>>
       /\ UNCHANGED genOutcome
  ELSE /\ gpc' = "threw"
       /\ genOutcome' = RateLimitExceeded
       /\ trace' = trace \o <<Event("throttled", attempt, t, 0, r),
                              Event("throw", attempt, t, 0, NoResult)>>
       /\ UNCHANGED backoffUntil

\* Any other error is retried after a backoff as well
OnOtherErrorRetries(r, t) ==
  IF attempt < maxRetries
  THEN /\ gpc' = "backoff"
       /\ backoffUntil' = t + Backoff(attempt)
       /\ trace' = trace \o <<Event("failed", attempt, t, 0, r),
                              Event("sleep", attempt, t, Backoff(attempt), NoResult)>>
       /\ UNCHANGED genOutcome
  ELSE /\ gpc' = "threw"
       /\ genOutcome' = r
       /\ trace' = trace \o <<Event("failed", attempt, t, 0, r),
                              Event("throw", attempt, t, 0, NoResult)>>
       /\ UNCHANGED backoffUntil

\* The other branch of the catch block (lines 802-805): throw error
OnOtherError(r, t) ==
  /\ gpc' = "threw"
  /\ genOutcome' = r
  /\ trace' = trace \o <<Event("failed", attempt, t, 0, r),
                         Event("throw", attempt, t, 0, NoResult)>>
  /\ UNCHANGED backoffUntil

\* A success after which the loop goes on to the next attempt
OnTextContinues(t) ==
  IF attempt < maxRetries
  THEN /\ gpc' = "backoff"
       /\ backoffUntil' = t
       /\ trace' = Append(trace, Event("ok", attempt, t, 0, NoResult))
       /\ UNCHANGED genOutcome
  ELSE /\ gpc' = "returned"
       /\ genOutcome' = [kind |-> "text", message |-> NoMessage]
       /\ trace' = trace \o <<Event("ok", attempt, t, 0, NoResult),
                              Event("return", attempt, t, 0, NoResult)>>
       /\ UNCHANGED backoffUntil

\* return text (lines 777-781)
OnText(t) ==
  /\ gpc' = "returned"
  /\ genOutcome' = [kind |-> "text", message |-> NoMessage]
  /\ trace' = trace \o <<Event("ok", attempt, t, 0, NoResult),
                         Event("return", attempt, t, 0, NoResult)>>
  /\ UNCHANGED backoffUntil

\* The external call completes after d ms with result r, and the function
\* returns the text, or runs its catch block (lines 776-806)
GenComplete(r, d) ==
  /\ gpc = "calling"
  /\ now' = now + d
  /\ IF r.kind = "text" THEN OnText(now')
     ELSE IF IsRateLimitError(r.message) THEN OnRateLimitError(r, now')
     ELSE OnOtherError(r, now')
  /\ UNCHANGED <<maxRequests, windowMs, requests, wpc, wakeAt, calls, cur, prompt, maxRetries,
                 attempt, selVars, evVars, splVars, hVars, runVars>>

\* A retry that calls the model again without waiting for a slot
GenRetryWithoutSlot ==
  /\ gpc = "backoff"
  /\ now >= backoffUntil
  /\ attempt' = attempt + 1
  /\ gpc' = "calling"
  /\ trace' = Append(trace, Event("invoke", attempt + 1, now, 0, NoResult))
  /\ UNCHANGED <<rlVars, prompt, maxRetries, backoffUntil, genOutcome,
                 selVars, evVars, splVars, hVars, runVars>>

\* The backoff timer of line 797 fires; continue, and the next attempt begins
GenRetry ==
  /\ gpc = "backoff"
  /\ now >= backoffUntil
  /\ BeginAttempt(attempt + 1, trace)
  /\ UNCHANGED <<maxRequests, windowMs, now, prompt, maxRetries, backoffUntil, genOutcome,
                 selVars, evVars, splVars, hVars, runVars>>

\* The timers that are armed and not yet due
PendingTimers ==
  {wakeAt[p] : p \in {q \in Callers : wpc[q] = "sleeping"}}
    \cup (IF gpc = "backoff" THEN {backoffUntil} ELSE {})
    \cup (IF rpc = "delay" THEN {delayUntil} ELSE {})

\* Time passes until an armed timer is due, or longer by one of the given delays
AdvanceClockBy(lates) ==
  /\ \E due \in PendingTimers :
       /\ now < due
       /\ \E late \in lates : now' = due + late
  /\ UNCHANGED <<maxRequests, windowMs, requests, wpc, wakeAt, calls, cur, genVars, selVars, evVars, splVars, hVars, runVars>>

(***************************************************************************)
(* Message selection (src/index.js:829-859 and 938-963)                    *)
(***************************************************************************)
\* A stored message is [id, text, timestamp].  Stored timestamps count
\* microseconds; toDate() turns one into a Date, which counts milliseconds.
TicksPerMs == 1000
NoTimestamp == 0 - 1
\* getLastSummaryTimestamp() returned null
NoWatermark == 0 - 1

\* Timestamp.toDate(): the nearest millisecond
ToDate(ts) == (2 * ts + TicksPerMs) \div (2 * TicksPerMs)

\* String.prototype.toLowerCase on the texts of the model
ToLowerCase(text) ==
  CASE text = "/SUMMARIZE" -> "/summarize"
    [] text = "/Summarize" -> "/summarize"
    [] text = "Hi" -> "hi"
    [] OTHER -> text

\* A comparison with the command that is sensitive to case
NotCommandExact(msg) == msg.text # "" /\ msg.text # "/summarize"

\* msg => msg.text && msg.text.toLowerCase() !== '/summarize' (lines 845, 939)
NotCommand(msg) == msg.text # "" /\ ToLowerCase(msg.text) # "/summarize"

\* A comparison with the watermark that lets equal times through
NewerThanOrAt(msg, T) ==
  /\ msg.timestamp # NoTimestamp
  /\ ToDate(msg.timestamp) >= ToDate(T)

\* A comparison with the watermark that lets a message without timestamp through
NewerThanOrUnstamped(msg, T) ==
  \/ msg.timestamp = NoTimestamp
  \/ ToDate(msg.timestamp) > ToDate(T)

\* The filter of lines 849-852 and 943-946
NewerThan(msg, T) ==
  /\ msg.timestamp # NoTimestamp
  /\ ToDate(msg.timestamp) > ToDate(T)

\* Array.prototype.reverse
Reverse(s) == [k \in 1..Len(s) |-> s[Len(s) + 1 - k]]

\* Array.prototype.slice(-n)
LastN(s, n) == IF Len(s) <= n THEN s ELSE SubSeq(s, Len(s) - n + 1, Len(s))

\* const limit = lastSummaryTimestamp ? 100 : 30 (line 830)
FetchLimit(T) == IF T # NoWatermark THEN 100 ELSE 30

\* .orderBy('timestamp', 'desc').limit(limit).get() on a conversation whose
\* stored messages are given oldest first: the newest limit messages, newest
\* first (lines 831-836)
QueryRecent(store, limit) == Reverse(LastN(store, limit))

\* docs.map(doc => doc.data()).reverse().filter(...) (lines 842-845)
ChronologicalWithoutCommand(snapshot) == SelectSeq(Reverse(snapshot), NotCommand)

\* The branch on lastSummaryTimestamp of lines 848-857
AfterWatermark(messages, T) ==
  IF T # NoWatermark
  THEN SelectSeq(messages, LAMBDA msg : NewerThan(msg, T))
  ELSE LastN(messages, 30)

\* The messages processChatsInBatches summarizes for one conversation
SelectDirect(store, T) ==
  AfterWatermark(ChronologicalWithoutCommand(QueryRecent(store, FetchLimit(T))), T)

\* timeA of lines 952-953: a message without timestamp sorts as new Date(0)
SortKey(msg) == IF msg.timestamp = NoTimestamp THEN 0 ELSE ToDate(msg.timestamp)

\* Array.prototype.sort((a, b) => timeA - timeB), which is stable
RECURSIVE InsertByTime(_, _)
InsertByTime(sorted, msg) ==
  IF sorted = <<>> THEN <<msg>>
  ELSE IF SortKey(sorted[Len(sorted)]) <= SortKey(msg) THEN Append(sorted, msg)
  ELSE Append(InsertByTime(SubSeq(sorted, 1, Len(sorted) - 1), msg), sorted[Len(sorted)])

RECURSIVE SortByTime(_)
SortByTime(s) ==
  IF s = <<>> THEN <<>>
  ELSE InsertByTime(SortByTime(SubSeq(s, 1, Len(s) - 1)), s[Len(s)])

\* The branch on lastSummaryTimestamp of lines 941-958
AfterWatermarkGroup(filtered, T) ==
  IF T # NoWatermark
  THEN SelectSeq(filtered, LAMBDA msg : NewerThan(msg, T))
  ELSE LastN(SortByTime(filtered), 30)

\* The messages processCollectionGroupChatsInBatches summarizes for one entry
SelectGroup(messages, T) == AfterWatermarkGroup(SelectSeq(messages, NotCommand), T)

\* The selection, stage by stage
SelFetch ==
  /\ selStage = "start"
  /\ selPath = "direct"
  /\ selMessages' = QueryRecent(selStore, FetchLimit(selWatermark))
  /\ selStage' = "fetched"
  /\ UNCHANGED <<rlVars, genVars, runVars, evVars, splVars, hVars, selPath, selStore, selWatermark>>

SelFilterCommand ==
  /\ \/ /\ selStage = "fetched"
        /\ selPath = "direct"
        /\ selMessages' = ChronologicalWithoutCommand(selMessages)
     \/ /\ selStage = "start"
        /\ selPath = "group"
        /\ selMessages' = SelectSeq(selStore, NotCommand)
  /\ selStage' = "filtered"
  /\ UNCHANGED <<rlVars, genVars, runVars, evVars, splVars, hVars, selPath, selStore, selWatermark>>

SelAfterWatermark ==
  /\ selStage = "filtered"
  /\ selMessages' = IF selPath = "direct" THEN AfterWatermark(selMessages, selWatermark)
                    ELSE AfterWatermarkGroup(selMessages, selWatermark)
  /\ selStage' = "selected"
  /\ UNCHANGED <<rlVars, genVars, runVars, evVars, splVars, hVars, selPath, selStore, selWatermark>>

(***************************************************************************)
(* splitIntoMessages (src/index.js:711-733)                                *)
(***************************************************************************)
\* A text is a sequence of characters; trim() removes the blank and the line
\* separator from both ends
NewLine == "\n"
WhiteSpace == {" ", NewLine}

\* The positions of the line separators in a text
SeparatorsOf(s) == {i \in 1..Len(s) : s[i] = NewLine}

\* The pieces of a text between the separators at the positions seps, empty
\* pieces included
PiecesBetween(s, seps) ==
  LET n == Cardinality(seps)
      \* the position of the k-th separator, with one before and one after s
      sep(k) == IF k = 0 THEN 0
                ELSE IF k = n + 1 THEN Len(s) + 1
                ELSE CHOOSE i \in seps : Cardinality({j \in seps : j <= i}) = k
  IN [k \in 1..(n + 1) |-> SubSeq(s, sep(k - 1) + 1, sep(k) - 1)]

\* text.split('\n') (line 713) (the text and the positions are computed once)
Split(s) ==
  CHOOSE pieces \in UNION {{PiecesBetween(t, seps) : seps \in {SeparatorsOf(t)}} : t \in {s}} : TRUE

\* String.prototype.trim(): what is left between the first and the last
\* character that is not white space
Trim(s) ==
  IF \A i \in 1..Len(s) : s[i] \in WhiteSpace THEN <<>>
  ELSE SubSeq(s,
              CHOOSE i \in 1..Len(s) :
                s[i] \notin WhiteSpace /\ \A j \in 1..(i - 1) : s[j] \in WhiteSpace,
              CHOOSE i \in 1..Len(s) :
                s[i] \notin WhiteSpace /\ \A j \in (i + 1)..Len(s) : s[j] \in WhiteSpace)

\* A test under which every line starts a new message
StartsNewMessageAtEveryLine(current, line, maxLen) == Len(current) > 0

\* A test that leaves the separator out of the count
StartsNewMessageNoSeparator(current, line, maxLen) ==
  Len(current) + Len(line) > maxLen /\ Len(current) > 0

\* The test of line 718
StartsNewMessage(current, line, maxLen) ==
  Len(current) + Len(line) + 1 > maxLen /\ Len(current) > 0

\* A line joined to the message with no separator
AppendedWithoutSeparator(current, line) == current \o line

\* currentMessage += (currentMessage.length > 0 ? '\n' : '') + line (line 722)
Appended(current, line) == current \o (IF Len(current) > 0 THEN <<NewLine>> ELSE <<>>) \o line

\* A last message that is pushed whatever it holds
KeepsLastAlways(current) == TRUE

\* The test of line 727
KeepsLast(current) == Len(Trim(current)) > 0

\* function splitIntoMessages(text, maxLength = 4000) (line 711)
DefaultMaxLength == 4000

\* One pass of the loop (lines 717-724) over a line, from the messages and
\* the currentMessage before it to those after it
LoopBody(before, line, maxLen) ==
  IF StartsNewMessage(before.currentMessage, line, maxLen)
  THEN [messages |-> Append(before.messages, Trim(before.currentMessage)),
        currentMessage |-> line]
  ELSE [messages |-> before.messages,
        currentMessage |-> Appended(before.currentMessage, line)]

\* The messages and the currentMessage after the first i lines of ls (each
\* pass is computed once, from the value of the pass before)
RECURSIVE SplitLoop(_, _, _)
SplitLoop(ls, i, maxLen) ==
  IF i = 0 THEN [messages |-> <<>>, currentMessage |-> <<>>]
  ELSE CHOOSE after \in {LoopBody(before, ls[i], maxLen) :
                           before \in {SplitLoop(ls, i - 1, maxLen)}} : TRUE

\* The push of lines 726-729 and the return of line 731
LastPush(last) ==
  IF KeepsLast(last.currentMessage)
  THEN Append(last.messages, Trim(last.currentMessage))
  ELSE last.messages

\* splitIntoMessages(text, maxLength), as a function
SplitIntoMessages(txt, maxLen) ==
  CHOOSE ms \in UNION {{LastPush(last) : last \in {SplitLoop(ls, Len(ls), maxLen)}} :
                         ls \in {Split(txt)}} : TRUE

\* splitIntoMessages(text, maxLength) is entered (lines 711-715)
SplitEnter ==
  /\ spc = "idle"
  /\ splitLines' = Split(splitText)
  /\ lineIdx' = 1
  /\ currentMessage' = <<>>
  /\ segments' = <<>>
  /\ spc' = "loop"
  /\ UNCHANGED <<rlVars, genVars, selVars, runVars, evVars, hVars, splitText, maxLength, closed>>

\* One pass of the loop over the lines (lines 717-724)
SplitLine ==
  /\ spc = "loop"
  /\ lineIdx <= Len(splitLines)
  /\ LET line == splitLines[lineIdx] IN
       IF StartsNewMessage(currentMessage, line, maxLength)
       THEN /\ segments' = Append(segments, Trim(currentMessage))
            /\ closed' = Append(closed, [raw |-> currentMessage, at |-> lineIdx])
            /\ currentMessage' = line
       ELSE /\ currentMessage' = Appended(currentMessage, line)
            /\ UNCHANGED <<segments, closed>>
  /\ lineIdx' = lineIdx + 1
  /\ UNCHANGED <<rlVars, genVars, selVars, runVars, evVars, hVars, splitText, maxLength, splitLines, spc>>

\* The loop is through: the last message is pushed if it has content, and the
\* messages are returned (lines 726-732)
SplitReturn ==
  /\ spc = "loop"
  /\ lineIdx > Len(splitLines)
  /\ segments' = IF KeepsLast(currentMessage) THEN Append(segments, Trim(currentMessage))
                 ELSE segments
  /\ spc' = "done"
  /\ UNCHANGED <<rlVars, genVars, selVars, runVars, evVars, hVars, splitText, maxLength, splitLines, lineIdx,
                 currentMessage, closed>>

(***************************************************************************)
(* processChatsInBatches (src/index.js:811-917) and                        *)
(* processCollectionGroupChatsInBatches (src/index.js:920-1021), run under *)
(* the try/catch of handleEvent (src/index.js:1313-1424)                   *)
(***************************************************************************)
\* generateContentWithRetry(summaryPrompt) is called with the default
\* maxRetries = 3 (lines 769, 880, 983)
DefaultMaxRetries == 3

\* The delay between batches, in ms (lines 911, 1015)
BatchDelayMs == 60000

\* The webhook event handed to the run: its reply token and its source, where
\* the group id is the empty string when the message came from a user chat
NoEvent == [replyToken |-> "", source |-> [groupId |-> "", userId |-> ""]]

\* A push target that is the user whatever the source
TargetIdUser(ev) == ev.source.userId

\* event.source.groupId || event.source.userId (lines 904, 1008)
TargetId(ev) == IF ev.source.groupId # "" THEN ev.source.groupId ELSE ev.source.userId

\* A batch of the outer loop: chats.slice(i, i + batchSize) and the time the
\* loop came to it
BatchAt(i) ==
  [number |-> (i \div batchSize) + 1, from |-> i + 1,
   to |-> IF i + batchSize < Len(chats) THEN i + batchSize ELSE Len(chats), startedAt |-> now]

runInputs == <<event, path, chats, lastSummaryTimestamp, batchSize>>
limiterVars == <<maxRequests, windowMs, requests, wpc, wakeAt, calls, cur>>

totalChats == Len(chats)
\* Math.floor(i / batchSize) + 1 and Math.ceil(totalChats / batchSize)
batchNumber == (batchI \div batchSize) + 1
totalBatches == (totalChats + batchSize - 1) \div batchSize
\* A slice that runs to the end of the list
BatchEndWhole == totalChats

\* chats.slice(i, i + batchSize) ends at this conversation
BatchEnd == IF batchI + batchSize < totalChats THEN batchI + batchSize ELSE totalChats

\* The errors a store query or a delivery call rejects with
StoreError == [kind |-> "queryError", message |-> [present |-> TRUE, has |-> {}]]
DeliveryError == [kind |-> "deliveryError", message |-> [present |-> TRUE, has |-> {}]]

\* The summary prompt of lines 871-879 and 973-982
PromptOf(k, messages) == [chat |-> k, template |-> path, lines |-> messages]

\* A test for an empty selection that never skips
SkipsNever(messages) == FALSE

\* if (messages.length === 0) continue (lines 859, 960-963)
Skips(messages) == Len(messages) = 0

\* The rest of an iteration of the inner loop once the messages of
\* conversation k are selected (lines 859-880, 960-983): continue, or build the
\* prompt and call generateContentWithRetry
ProcessSelected(k, messages) ==
  /\ processed' = Append(processed, [chat |-> k, batch |-> batchNumber, selected |-> messages])
  /\ IF Skips(messages)
     THEN /\ idx' = k + 1
          /\ rpc' = "loop"
          /\ UNCHANGED <<limiterVars, genVars>>
     ELSE /\ GenEnter(PromptOf(k, messages), DefaultMaxRetries)
          /\ rpc' = "generating"
          /\ UNCHANGED <<maxRequests, windowMs, idx>>

\* The function is called: the outer loop starts its first batch (lines 811-823)
RunCall ==
  /\ rpc = "idle"
  /\ batchI' = 0
  /\ summaries' = <<>>
  /\ idx' = 1
  /\ rpc' = IF totalChats > 0 THEN "loop" ELSE "done"
  /\ batches' = IF totalChats > 0 THEN <<BatchAt(0)>> ELSE <<>>
  /\ UNCHANGED <<rlVars, genVars, selVars, evVars, splVars, hVars, runInputs, delayUntil, runError, processed,
                 deliveries>>

\* processChatsInBatches comes to a conversation of the batch and queries its
\* messages (lines 826-836)
RunQuery ==
  /\ rpc = "loop"
  /\ path = "direct"
  /\ idx <= BatchEnd
  /\ rpc' = "fetching"
  /\ UNCHANGED <<rlVars, genVars, selVars, evVars, splVars, hVars, runInputs, batches, batchI, idx, summaries, delayUntil,
                 runError, processed, deliveries>>

\* The query returns (lines 838-880), or fails
RunQueryDone(ok) ==
  /\ rpc = "fetching"
  /\ IF ok
     THEN LET snapshot == QueryRecent(chats[idx].messages, FetchLimit(lastSummaryTimestamp)) IN
          /\ IF snapshot = <<>>
             THEN /\ processed' = Append(processed,
                                       [chat |-> idx, batch |-> batchNumber, selected |-> <<>>])
                  /\ idx' = idx + 1
                  /\ rpc' = "loop"
                  /\ UNCHANGED <<limiterVars, genVars>>
             ELSE ProcessSelected(idx, AfterWatermark(ChronologicalWithoutCommand(snapshot),
                                                      lastSummaryTimestamp))
          /\ UNCHANGED runError
     ELSE /\ runError' = StoreError
          /\ rpc' = "caught"
          /\ UNCHANGED <<limiterVars, genVars, idx, processed>>
  /\ UNCHANGED <<now, selVars, evVars, splVars, hVars, runInputs, batches, batchI, summaries, delayUntil, deliveries>>

\* processCollectionGroupChatsInBatches comes to an entry of the batch
\* (lines 935-983)
RunEntry ==
  /\ rpc = "loop"
  /\ path = "group"
  /\ idx <= BatchEnd
  /\ ProcessSelected(idx, SelectGroup(chats[idx].messages, lastSummaryTimestamp))
  /\ UNCHANGED <<now, selVars, evVars, splVars, hVars, runInputs, batches, batchI, summaries, delayUntil, runError, deliveries>>

\* A failed generation after which the loop goes on with the next conversation
RunGenThrewGoesOn ==
  /\ rpc = "generating"
  /\ gpc = "threw"
  /\ gpc' = "idle"
  /\ idx' = idx + 1
  /\ rpc' = "loop"
  /\ UNCHANGED <<rlVars, prompt, maxRetries, attempt, backoffUntil, genOutcome, trace, selVars, evVars, splVars, hVars,
                 runInputs, batches, batchI, summaries, delayUntil, runError, processed, deliveries>>

\* generateContentWithRetry throws: nothing in the function catches it, and the
\* catch block of handleEvent is entered (lines 880, 983, 1408)
RunGenThrew ==
  /\ rpc = "generating"
  /\ gpc = "threw"
  /\ gpc' = "idle"
  /\ runError' = genOutcome
  /\ rpc' = "caught"
  /\ UNCHANGED <<rlVars, prompt, maxRetries, attempt, backoffUntil, genOutcome, trace, selVars, evVars, splVars, hVars,
                 runInputs, batches, batchI, idx, summaries, delayUntil, processed, deliveries>>

\* The texts generateContentWithRetry returns in a run: a short one, and one
\* of a single line that is longer than the default maxLength
SummaryKinds == {"short", "long"}
SummaryText(kind) ==
  IF kind = "short" THEN <<"a">> ELSE [i \in 1..(DefaultMaxLength + 1) |-> "a"]

\* The title of the digest without and with the batch title (lines 887, 891):
\* 31 characters, and 12 more for ' (Batch b/N)'
DigestTitle(b, n) == [i \in 1..(IF n > 1 THEN 31 + 12 ELSE 31) |-> "h"]

\* summaries.push(`... **${chatType} : ${chatName}**\n${summary}`) (line 882):
\* a title line, which stands for the names, and the summary
SummaryEntry(kind) == <<"t", NewLine>> \o SummaryText(kind)

\* summaries.join('\n----\n') (line 888), from entry k on
RECURSIVE JoinedFrom(_, _)
JoinedFrom(entries, k) ==
  IF k > Len(entries) THEN <<>>
  ELSE IF k = Len(entries) THEN SummaryEntry(entries[k].text)
  ELSE SummaryEntry(entries[k].text) \o <<NewLine, "-", "-", "-", "-", NewLine>>
         \o JoinedFrom(entries, k + 1)

CombinedSummary(entries) == JoinedFrom(entries, 1)

\* The text handed to splitIntoMessages (line 891)
DigestText(entries, b, n) == DigestTitle(b, n) \o <<NewLine, NewLine>> \o CombinedSummary(entries)

\* A summary that is put before the summaries of the batch
RunGenReturnedPrepends(kind) ==
  /\ rpc = "generating"
  /\ gpc = "returned"
  /\ gpc' = "idle"
  /\ summaries' = <<[chat |-> idx, of |-> prompt.lines, text |-> kind]>> \o summaries
  /\ idx' = idx + 1
  /\ rpc' = "loop"
  /\ UNCHANGED <<rlVars, prompt, maxRetries, attempt, backoffUntil, genOutcome, trace, selVars, evVars, splVars, hVars,
                 runInputs, batches, batchI, delayUntil, runError, processed, deliveries>>

\* generateContentWithRetry returns the summary, which joins the summaries of
\* the batch (lines 880-882, 983-986)
RunGenReturned(kind) ==
  /\ rpc = "generating"
  /\ gpc = "returned"
  /\ gpc' = "idle"
  /\ summaries' = Append(summaries, [chat |-> idx, of |-> prompt.lines, text |-> kind])
  /\ idx' = idx + 1
  /\ rpc' = "loop"
  /\ UNCHANGED <<rlVars, prompt, maxRetries, attempt, backoffUntil, genOutcome, trace, selVars, evVars, splVars, hVars,
                 runInputs, batches, batchI, delayUntil, runError, processed, deliveries>>

\* The outer loop moves to the next batch, or the function returns
NextBatch ==
  /\ batchI' = batchI + batchSize
  /\ IF batchI + batchSize < totalChats
     THEN /\ summaries' = <<>>
          /\ idx' = batchI + batchSize + 1
          /\ rpc' = "loop"
          /\ batches' = Append(batches, BatchAt(batchI + batchSize))
     ELSE /\ rpc' = "done"
          /\ UNCHANGED <<summaries, idx, batches>>

\* The batch is through and has summaries: they are sent, by reply for batch 1
\* and by push otherwise (lines 886-906, 990-1010)
RunDeliver ==
  /\ rpc = "loop"
  /\ idx > BatchEnd
  /\ Len(summaries) > 0
  /\ deliveries' = Append(deliveries,
       [op |-> IF batchNumber = 1 THEN "reply" ELSE "push",
        to |-> IF batchNumber = 1 THEN event.replyToken ELSE TargetId(event),
        batch |-> batchNumber, what |-> "digest", entries |-> summaries,
        messages |-> Len(SplitIntoMessages(DigestText(summaries, batchNumber, totalBatches),
                                           DefaultMaxLength)),
        result |-> "pending", at |-> now, doneAt |-> now])
  /\ rpc' = "delivering"
  /\ UNCHANGED <<rlVars, genVars, selVars, evVars, splVars, hVars, runInputs, batches, batchI, idx, summaries, delayUntil,
                 runError, processed>>

\* The batch is through and has no summaries (lines 886, 990)
RunNothingToDeliver ==
  /\ rpc = "loop"
  /\ idx > BatchEnd
  /\ Len(summaries) = 0
  /\ NextBatch
  /\ UNCHANGED <<rlVars, genVars, selVars, evVars, splVars, hVars, runInputs, delayUntil, runError, processed, deliveries>>

\* A delivery after which the next batch starts with no delay
RunDeliverDoneNoDelay(ok) ==
  /\ rpc = "delivering"
  /\ deliveries' = [deliveries EXCEPT ![Len(deliveries)].result = IF ok THEN "ok" ELSE "failed",
                                      ![Len(deliveries)].doneAt = now]
  /\ IF ok
     THEN NextBatch /\ UNCHANGED <<delayUntil, runError>>
     ELSE /\ runError' = DeliveryError
          /\ rpc' = "caught"
          /\ UNCHANGED <<batchI, idx, summaries, delayUntil, batches>>
  /\ UNCHANGED <<rlVars, genVars, selVars, evVars, splVars, hVars, runInputs, processed>>

\* A delivery whose failure is passed over: the run goes on as after a success
RunDeliverDoneGoesOn(ok) ==
  /\ rpc = "delivering"
  /\ deliveries' = [deliveries EXCEPT ![Len(deliveries)].result = IF ok THEN "ok" ELSE "failed",
                                      ![Len(deliveries)].doneAt = now]
  /\ IF batchI + batchSize < totalChats
     THEN /\ delayUntil' = now + BatchDelayMs
          /\ rpc' = "delay"
          /\ UNCHANGED <<batchI, idx, summaries, batches>>
     ELSE NextBatch /\ UNCHANGED delayUntil
  /\ UNCHANGED <<rlVars, genVars, selVars, evVars, splVars, hVars, runInputs, runError, processed>>

\* The delivery call returns, and the delay before the next batch starts if
\* there is one (lines 908-912, 1012-1016); or the call fails
RunDeliverDone(ok) ==
  /\ rpc = "delivering"
  /\ deliveries' = [deliveries EXCEPT ![Len(deliveries)].result = IF ok THEN "ok" ELSE "failed",
                                      ![Len(deliveries)].doneAt = now]
  /\ IF ok
     THEN /\ IF batchI + batchSize < totalChats
             THEN /\ delayUntil' = now + BatchDelayMs
                  /\ rpc' = "delay"
                  /\ UNCHANGED <<batchI, idx, summaries, batches>>
             ELSE NextBatch /\ UNCHANGED delayUntil
          /\ UNCHANGED runError
     ELSE /\ runError' = DeliveryError
          /\ rpc' = "caught"
          /\ UNCHANGED <<batchI, idx, summaries, delayUntil, batches>>
  /\ UNCHANGED <<rlVars, genVars, selVars, evVars, splVars, hVars, runInputs, processed>>

\* A delay that is over before its timer is due
RunDelayCutShort ==
  /\ rpc = "delay"
  /\ NextBatch
  /\ UNCHANGED <<rlVars, genVars, selVars, evVars, splVars, hVars, runInputs, delayUntil, runError, processed,
                 deliveries>>

\* The timer of the delay fires
RunDelayDone ==
  /\ rpc = "delay"
  /\ now >= delayUntil
  /\ NextBatch
  /\ UNCHANGED <<rlVars, genVars, selVars, evVars, splVars, hVars, runInputs, delayUntil, runError, processed, deliveries>>

\* The notice chosen by the catch block of handleEvent (lines 1411-1420)
NoticeFor(message) ==
  IF message.present /\ Includes(message, "Rate limit exceeded") THEN "rate limited"
  ELSE IF message.present /\ Includes(message, "quota") THEN "quota"
  ELSE IF message.present /\ Includes(message, "429") THEN "too many requests"
  ELSE "generic"

\* The catch block of handleEvent replies with the notice (lines 1408-1424)
RunCaught ==
  /\ rpc = "caught"
  /\ deliveries' = Append(deliveries,
       [op |-> "reply", to |-> event.replyToken, batch |-> 0,
        what |-> NoticeFor(runError.message), entries |-> <<>>, messages |-> 1,
        result |-> "pending", at |-> now, doneAt |-> now])
  /\ rpc' = "aborted"
  /\ UNCHANGED <<rlVars, genVars, selVars, evVars, splVars, hVars, runInputs, batches, batchI, idx, summaries, delayUntil,
                 runError, processed>>

(***************************************************************************)
(* The /summarize branch of handleEvent (src/index.js:1313-1425), for      *)
(* several invocations that share the commands collection                  *)
(***************************************************************************)
\* The store's clock, in ms, when the first invocation arrives: every stored
\* message is older
StoreStartMs == 2

\* FieldValue.serverTimestamp() (line 1327): the store stamps the record when
\* it is written
ServerTimestamp(t) == (StoreStartMs + t) * TicksPerMs

\* The record handleEvent builds (lines 1323-1331) for invocation e, which comes
\* from user e in user chat e
CommandData(e, ts) ==
  [commandText |-> "/summarize", timestamp |-> ts, userId |-> e, chatsId |-> e]

\* The larger of two timestamps
Later(a, b) == IF a >= b THEN a ELSE b

\* where('commandText', '==', '/summarize').orderBy('timestamp', 'desc').limit(1)
\* (lines 1026-1030) over the first n records: the newest timestamp, or null
RECURSIVE LatestTimestamp(_, _)
LatestTimestamp(records, n) ==
  IF n = 0 THEN NoWatermark
  ELSE IF records[n].commandText = "/summarize"
       THEN Later(records[n].timestamp, LatestTimestamp(records, n - 1))
       ELSE LatestTimestamp(records, n - 1)

\* The invocations that have come to their end
Ended == {d \in Invocations : epc[d] \in {"done", "aborted"}}

\* A step of invocation e in its history, with the watermark the invocation
\* holds
Step(e, ev, k, sel) ==
  [ev |-> ev, ok |-> TRUE, chat |-> k, seen |-> 0, ended |-> {},
   wm |-> eWatermark[e], of |-> sel]

\* The step in which the lookup of invocation e returned T, with the number of
\* records in the commands collection and the invocations that had ended then
Resolved(e, ok, T) ==
  [ev |-> "resolved", ok |-> ok, chat |-> 0, seen |-> Len(commands), ended |-> Ended,
   wm |-> T, of |-> <<>>]

\* The step in which invocation e selected the messages of conversation k,
\* with the number of records in the commands collection then
Selection(e, k, sel) ==
  [ev |-> "selected", ok |-> TRUE, chat |-> k, seen |-> Len(commands), ended |-> {},
   wm |-> eWatermark[e], of |-> sel]

\* The history of invocation e grows by the steps
Logged(e, steps) == [elog EXCEPT ![e] = elog[e] \o steps]

\* A lookup that takes the newest record of the invoking conversation only
ResolveOwnConversation(e, ok) ==
  LET own == SelectSeq(commands, LAMBDA r : r.chatsId = e)
      T == IF ok THEN LatestTimestamp(own, Len(own)) ELSE NoWatermark IN
  /\ epc[e] = "resolving"
  /\ eWatermark' = [eWatermark EXCEPT ![e] = T]
  /\ elog' = Logged(e, <<Resolved(e, ok, T)>>)
  /\ epc' = [epc EXCEPT ![e] = "profile"]
  /\ UNCHANGED <<rlVars, genVars, selVars, runVars, splVars, hVars, commands, eIdx>>

\* A message with the text /summarize arrives: handleEvent runs up to its
\* await of getLastSummaryTimestamp() (lines 1281-1318)
EvArrive(e) ==
  /\ epc[e] = "none"
  /\ \A d \in Invocations : d < e => epc[d] # "none"
  \* at most two invocations are under way at a time
  /\ \A d \in Invocations : d + 2 <= e => d \in Ended
  /\ epc' = [epc EXCEPT ![e] = "resolving"]
  /\ UNCHANGED <<rlVars, genVars, selVars, runVars, splVars, hVars, commands, eWatermark, eIdx, elog>>

\* A lookup whose failure is raised: the handler ends in its catch block
EvResolveFailureRaised(e, ok) ==
  LET T == IF ok THEN LatestTimestamp(commands, Len(commands)) ELSE NoWatermark IN
  /\ epc[e] = "resolving"
  /\ eWatermark' = [eWatermark EXCEPT ![e] = T]
  /\ elog' = Logged(e, IF ok THEN <<Resolved(e, ok, T)>>
                        ELSE <<Resolved(e, ok, T), Step(e, "aborted", 0, <<>>)>>)
  /\ epc' = [epc EXCEPT ![e] = IF ok THEN "profile" ELSE "aborted"]
  /\ UNCHANGED <<rlVars, genVars, selVars, runVars, splVars, hVars, commands, eIdx>>

\* getLastSummaryTimestamp() returns (lines 1024-1041): the timestamp of the
\* newest record, or null when there is none or when the query failed; the
\* handler goes on to the profile lookup (lines 1318-1339)
EvResolve(e, ok) ==
  LET T == IF ok THEN LatestTimestamp(commands, Len(commands)) ELSE NoWatermark IN
  /\ epc[e] = "resolving"
  /\ eWatermark' = [eWatermark EXCEPT ![e] = T]
  /\ elog' = Logged(e, <<Resolved(e, ok, T)>>)
  /\ epc' = [epc EXCEPT ![e] = "profile"]
  /\ UNCHANGED <<rlVars, genVars, selVars, runVars, splVars, hVars, commands, eIdx>>

\* The profile lookup returns and the record is sent to the store (line 1341),
\* or the lookup fails and the inner catch block logs it (lines 1343-1345)
EvProfile(e, ok) ==
  /\ epc[e] = "profile"
  /\ IF ok
     THEN /\ epc' = [epc EXCEPT ![e] = "saving"]
          /\ UNCHANGED elog
     ELSE /\ epc' = [epc EXCEPT ![e] = "listing"]
          /\ elog' = Logged(e, <<Step(e, "saveFailed", 0, <<>>)>>)
  /\ UNCHANGED <<rlVars, genVars, selVars, runVars, splVars, hVars, commands, eWatermark, eIdx>>

\* db.collection('commands').add(commandData) returns (line 1341), or fails
\* and the inner catch block logs it; the handler goes on to list the
\* conversations (line 1350)
EvAdd(e, ok) ==
  /\ epc[e] = "saving"
  /\ IF ok
     THEN /\ now' = now + 1
          /\ commands' = Append(commands, CommandData(e, ServerTimestamp(now')))
          /\ elog' = Logged(e, <<Step(e, "appended", 0, <<>>)>>)
     ELSE /\ elog' = Logged(e, <<Step(e, "saveFailed", 0, <<>>)>>)
          /\ UNCHANGED <<now, commands>>
  /\ epc' = [epc EXCEPT ![e] = "listing"]
  /\ UNCHANGED <<maxRequests, windowMs, requests, wpc, wakeAt, calls, cur, genVars, selVars,
                 runVars, splVars, hVars, eWatermark, eIdx>>

\* db.collection('chats').get() returns and processChatsInBatches is called
\* (lines 1350, 1392-1396), or fails and the catch block replies (line 1408)
EvList(e, ok) ==
  /\ epc[e] = "listing"
  /\ IF ok
     THEN /\ epc' = [epc EXCEPT ![e] = "processing"]
          /\ eIdx' = [eIdx EXCEPT ![e] = 1]
          /\ UNCHANGED elog
     ELSE /\ epc' = [epc EXCEPT ![e] = "aborted"]
          /\ elog' = Logged(e, <<Step(e, "aborted", 0, <<>>)>>)
          /\ UNCHANGED eIdx
  /\ UNCHANGED <<rlVars, genVars, selVars, runVars, splVars, hVars, commands, eWatermark>>

\* A run that leaves out the messages another invocation has selected already
EvChatLeavesOutSelected(e, outcome) ==
  LET k == eIdx[e]
      taken(msg) == \E d \in Invocations \ {e} : \E i \in 1..Len(elog[d]) :
                      /\ elog[d][i].ev = "selected"
                      /\ elog[d][i].chat = k
                      /\ \E j \in 1..Len(elog[d][i].of) : elog[d][i].of[j] = msg
      messages == SelectSeq(SelectDirect(chats[k].messages, eWatermark[e]),
                            LAMBDA msg : ~taken(msg)) IN
  /\ epc[e] = "processing"
  /\ k <= Len(chats)
  /\ outcome = "generationFailed" => ~Skips(messages)
  /\ CASE outcome = "ok" ->
            /\ elog' = Logged(e, <<Selection(e, k, messages)>>)
            /\ eIdx' = [eIdx EXCEPT ![e] = k + 1]
            /\ UNCHANGED epc
       [] outcome = "queryFailed" ->
            /\ elog' = Logged(e, <<Step(e, "aborted", k, <<>>)>>)
            /\ epc' = [epc EXCEPT ![e] = "aborted"]
            /\ UNCHANGED eIdx
       [] outcome = "generationFailed" ->
            /\ elog' = Logged(e, <<Selection(e, k, messages),
                                     Step(e, "aborted", k, <<>>)>>)
            /\ epc' = [epc EXCEPT ![e] = "aborted"]
            /\ UNCHANGED eIdx
  /\ UNCHANGED <<rlVars, genVars, selVars, runVars, splVars, hVars, commands, eWatermark>>

\* The run of invocation e takes its next conversation (lines 826-882): the
\* messages are selected with the watermark the run was given, and when there
\* are some their summary is generated; a failed query or generation ends the
\* run in the catch block of handleEvent
EvChat(e, outcome) ==
  LET k == eIdx[e]
      messages == SelectDirect(chats[k].messages, eWatermark[e]) IN
  /\ epc[e] = "processing"
  /\ k <= Len(chats)
  /\ outcome = "generationFailed" => ~Skips(messages)
  /\ CASE outcome = "ok" ->
            /\ elog' = Logged(e, <<Selection(e, k, messages)>>)
            /\ eIdx' = [eIdx EXCEPT ![e] = k + 1]
            /\ UNCHANGED epc
       [] outcome = "queryFailed" ->
            /\ elog' = Logged(e, <<Step(e, "aborted", k, <<>>)>>)
            /\ epc' = [epc EXCEPT ![e] = "aborted"]
            /\ UNCHANGED eIdx
       [] outcome = "generationFailed" ->
            /\ elog' = Logged(e, <<Selection(e, k, messages),
                                     Step(e, "aborted", k, <<>>)>>)
            /\ epc' = [epc EXCEPT ![e] = "aborted"]
            /\ UNCHANGED eIdx
  /\ UNCHANGED <<rlVars, genVars, selVars, runVars, splVars, hVars, commands, eWatermark>>

\* The conversations are through (lines 886-914): the digest is delivered when
\* there is a summary, and a failed delivery ends the run in the catch block
EvDeliver(e, ok) ==
  /\ epc[e] = "processing"
  /\ eIdx[e] > Len(chats)
  /\ IF \E i \in 1..Len(elog[e]) : elog[e][i].ev = "selected" /\ elog[e][i].of # <<>>
     THEN IF ok
          THEN /\ elog' = Logged(e, <<Step(e, "delivered", 0, <<>>)>>)
               /\ epc' = [epc EXCEPT ![e] = "done"]
          ELSE /\ elog' = Logged(e, <<Step(e, "aborted", 0, <<>>)>>)
               /\ epc' = [epc EXCEPT ![e] = "aborted"]
     ELSE /\ elog' = Logged(e, <<Step(e, "nothing", 0, <<>>)>>)
          /\ epc' = [epc EXCEPT ![e] = "done"]
  /\ UNCHANGED <<rlVars, genVars, selVars, runVars, splVars, hVars, commands, eWatermark, eIdx>>

(***************************************************************************)
(* SpecRL: callers of the shared limiter                                   *)
(***************************************************************************)
\* A caller that is not suspended issues waitForSlot(): the body runs
\* synchronously up to its await
CallWaitForSlot(p) ==
  /\ wpc[p] # "sleeping"
  /\ Len(calls) < MaxCalls
  /\ cur' = [cur EXCEPT ![p] = Len(calls) + 1]
  /\ WaitForSlotBody(p, Append(calls, NewCall), Len(calls) + 1)
  /\ UNCHANGED <<maxRequests, windowMs, now, genVars, selVars, evVars, splVars, hVars, runVars>>

\* Date.now() advances
Tick ==
  /\ now < MaxTime
  /\ now' = now + 1
  /\ UNCHANGED <<maxRequests, windowMs, requests, wpc, wakeAt, calls, cur, genVars, selVars, evVars, splVars, hVars, runVars>>

\* new RateLimiter(maxRequests, windowMs) (lines 736-740)
InitLimiter(configs) ==
  /\ \E c \in configs : maxRequests = c[1] /\ windowMs = c[2]
  /\ requests = <<>>
  /\ now = 0
  /\ wpc = [p \in Callers |-> "idle"]
  /\ wakeAt = [p \in Callers |-> 0]
  /\ calls = <<>>
  /\ cur = [p \in Callers |-> 0]

\* generateContentWithRetry has not been called
InitGenIdle ==
  /\ gpc = "idle"
  /\ prompt = NoPrompt
  /\ maxRetries = 0
  /\ attempt = 0
  /\ backoffUntil = 0
  /\ genOutcome = NoResult
  /\ trace = <<>>

\* No selection is under way
InitSelIdle ==
  /\ selPath = "none"
  /\ selStore = <<>>
  /\ selWatermark = 0 - 1
  /\ selStage = "idle"
  /\ selMessages = <<>>

\* No run is under way
InitRunIdle ==
  /\ event = NoEvent
  /\ path = "none"
  /\ chats = <<>>
  /\ lastSummaryTimestamp = NoWatermark
  /\ batchSize = 0
  /\ rpc = "idle"
  /\ batchI = 0
  /\ idx = 0
  /\ summaries = <<>>
  /\ delayUntil = 0
  /\ runError = NoResult
  /\ batches = <<>>
  /\ processed = <<>>
  /\ deliveries = <<>>

\* No summarize command has arrived
InitEvIdle ==
  /\ commands = <<>>
  /\ epc = [e \in Invocations |-> "none"]
  /\ eWatermark = [e \in Invocations |-> NoWatermark]
  /\ eIdx = [e \in Invocations |-> 0]
  /\ elog = [e \in Invocations |-> <<>>]

\* splitIntoMessages has not been called
InitSplitIdle ==
  /\ splitText = <<>>
  /\ maxLength = 0
  /\ splitLines = <<>>
  /\ lineIdx = 0
  /\ currentMessage = <<>>
  /\ segments = <<>>
  /\ closed = <<>>
  /\ spc = "idle"

\* handleEvent has not been called
InitHandleIdle ==
  /\ hpc = "idle"
  /\ messageText = ""
  /\ cachedSheetsData = {}
  /\ writes = <<>>

InitRL ==
  /\ InitLimiter(MaxRequestsChoices \X WindowMsChoices)
  /\ InitGenIdle /\ InitSelIdle /\ InitRunIdle /\ InitEvIdle /\ InitSplitIdle
  /\ InitHandleIdle

NextRL ==
  \/ \E p \in Callers : CallWaitForSlot(p)
  \/ \E p \in Callers : WakeWaitForSlot(p)
  \/ Tick

SpecRL == InitRL /\ [][NextRL]_vars

(***************************************************************************)
(* SpecGen: one call of generateContentWithRetry                           *)
(***************************************************************************)
\* The maxRetries arguments tried (the default is 3)
MaxRetriesChoices == {0, 1, 2, 3}

\* The limiter the client uses is geminiRateLimiter = new RateLimiter(14, 60000)
\* (line 766); smaller limiters are tried as well, so that the client is also
\* suspended inside waitForSlot.
GenLimiterConfigs == {<<14, 60000>>, <<1, 3000>>, <<2, 5000>>}

CallGenerate ==
  /\ gpc = "idle"
  /\ \E mr \in MaxRetriesChoices : GenEnter(NoPrompt, mr)
  /\ UNCHANGED <<maxRequests, windowMs, now, selVars, evVars, splVars, hVars, runVars>>

InitGen ==
  /\ InitLimiter(GenLimiterConfigs) /\ InitGenIdle /\ InitSelIdle /\ InitRunIdle /\ InitEvIdle
  /\ InitSplitIdle
  /\ InitHandleIdle

NextGen ==
  \/ CallGenerate
  \/ GenInvoke
  \/ \E r \in CallResults, d \in CallLatencies : GenComplete(r, d)
  \/ GenRetry
  \/ WakeWaitForSlot(Self)
  \/ AdvanceClockBy(0..MaxLate)

SpecGen == InitGen /\ [][NextGen]_vars

(***************************************************************************)
(* SpecSelect: the selection applied to one conversation                   *)
(***************************************************************************)
MaxTail == 2           \* messages of a conversation that vary freely

\* A conversation holds k plain messages, one per millisecond, followed by a
\* tail of messages that are plain text or the command in either case, stored
\* on a whole millisecond or a fraction after it.
FillerCounts == {0, 29, 99}
TailTexts == {"hi", "/summarize", "/SUMMARIZE"}
TailOffsets == {0, 400}
Tails == UNION {[1..n -> TailTexts \X TailOffsets] : n \in 0..MaxTail}

StoreOf(k, tail) ==
  [i \in 1..(k + Len(tail)) |->
     IF i <= k THEN [id |-> i, text |-> "hi", timestamp |-> i * TicksPerMs]
     ELSE [id |-> i, text |-> tail[i - k][1],
           timestamp |-> i * TicksPerMs + tail[i - k][2]]]

\* Watermarks before every message, at the last plain message, at and just
\* after the first message of the tail, and after the tail; or none
WatermarksOf(k) ==
  {NoWatermark, 0, k * TicksPerMs, (k + 1) * TicksPerMs, (k + 1) * TicksPerMs + 400,
   (k + 2) * TicksPerMs + 400}

\* What the collection-group query hands over for one conversation: a few
\* messages in any order, some of them without a timestamp
GroupTimestamps == {NoTimestamp, 1 * TicksPerMs, 2 * TicksPerMs + 400}
GroupMessagesOf(m) == [i \in 1..Len(m) |-> [id |-> i, text |-> m[i][1], timestamp |-> m[i][2]]]
GroupInputs == UNION {[1..n -> TailTexts \X GroupTimestamps] : n \in 0..MaxTail}

\* A stored message whose timestamp field is null, which the store orders
\* before every stamped message
Unstamped(text) == [id |-> 0, text |-> text, timestamp |-> NoTimestamp]

InitSelect ==
  /\ InitLimiter({<<14, 60000>>})
  /\ InitGenIdle
  /\ InitRunIdle
  /\ InitEvIdle
  /\ InitSplitIdle
  /\ InitHandleIdle
  /\ selStage = "start"
  /\ selMessages = <<>>
  /\ \/ /\ selPath = "direct"
        /\ \E k \in FillerCounts, tail \in Tails :
             /\ selStore = StoreOf(k, tail)
             /\ selWatermark \in WatermarksOf(k)
     \/ /\ selPath = "direct"
        /\ \E text \in TailTexts, tail \in Tails : selStore = <<Unstamped(text)>> \o StoreOf(0, tail)
        /\ selWatermark \in WatermarksOf(0)
     \/ /\ selPath = "group"
        /\ \E m \in GroupInputs : selStore = GroupMessagesOf(m)
        /\ selWatermark \in WatermarksOf(0)

NextSelect ==
  \/ SelFetch
  \/ SelFilterCommand
  \/ SelAfterWatermark

SpecSelect == InitSelect /\ [][NextSelect]_vars

(***************************************************************************)
(* SpecRun: one run of a batch-processing function                         *)
(***************************************************************************)
MaxChats == 2          \* conversations handed to the run

\* The conversations of a run hold up to two messages, plain or the command
\* in capitals, one per millisecond
RunTails ==
  {<<>>, <<<<"hi", 0>>>>, <<<<"/SUMMARIZE", 0>>>>, <<<<"hi", 0>>, <<"/SUMMARIZE", 0>>>>}
RunStores == {StoreOf(0, tail) : tail \in RunTails}
RunWatermarks == {NoWatermark, 0, 1 * TicksPerMs}
BatchSizeChoices == {1, 2}

\* The limiter of line 766, and a smaller one under which a run is suspended
RunLimiterConfigs == {<<14, 60000>>, <<2, 5000>>}

\* What the external call does in a run: text, a throttling error, or another
\* error
\* The events that start a run: from a group chat, or from a user chat
RunEvents ==
  {[replyToken |-> "token", source |-> [groupId |-> "G", userId |-> "U"]],
   [replyToken |-> "token", source |-> [groupId |-> "", userId |-> "U"]]}

\* A long list of conversations without messages, cut with the batch size that
\* handleEvent passes (line 1392)
ManyChats == {32}
HandlerBatchSize == 15

RunCallResults ==
  {[kind |-> "text", message |-> NoMessage],
   [kind |-> "error", message |-> [present |-> TRUE, has |-> {"429"}]],
   [kind |-> "error", message |-> [present |-> TRUE, has |-> {"Rate limit exceeded"}]],
   [kind |-> "error", message |-> [present |-> TRUE, has |-> {}]]}

ChatsOf(stores) == [k \in 1..Len(stores) |-> [id |-> k, messages |-> stores[k]]]

InitRun ==
  /\ InitLimiter(RunLimiterConfigs)
  /\ InitGenIdle
  /\ InitSelIdle
  /\ InitEvIdle
  /\ InitSplitIdle
  /\ InitHandleIdle
  /\ event \in RunEvents
  /\ path \in {"direct", "group"}
  /\ \/ /\ \E n \in 1..MaxChats : \E stores \in [1..n -> RunStores] :
             /\ path = "group" => \A k \in 1..n : stores[k] # <<>>
             /\ chats = ChatsOf(stores)
        /\ batchSize \in BatchSizeChoices
     \/ /\ path = "direct"
        /\ \E n \in ManyChats : chats = ChatsOf([k \in 1..n |-> <<>>])
        /\ batchSize = HandlerBatchSize
  /\ lastSummaryTimestamp \in RunWatermarks
  /\ rpc = "idle"
  /\ batchI = 0
  /\ idx = 0
  /\ summaries = <<>>
  /\ delayUntil = 0
  /\ runError = NoResult
  /\ batches = <<>>
  /\ processed = <<>>
  /\ deliveries = <<>>

NextRun ==
  \/ RunCall
  \/ RunQuery
  \/ \E ok \in BOOLEAN : RunQueryDone(ok)
  \/ RunEntry
  \/ GenInvoke
  \/ \E r \in RunCallResults : GenComplete(r, 1)
  \/ GenRetry
  \/ WakeWaitForSlot(Self)
  \/ \E kind \in SummaryKinds : RunGenReturned(kind)
  \/ RunGenThrew
  \/ RunDeliver
  \/ RunNothingToDeliver
  \/ \E ok \in BOOLEAN : RunDeliverDone(ok)
  \/ RunDelayDone
  \/ RunCaught
  \/ AdvanceClockBy({0})

SpecRun == InitRun /\ [][NextRun]_vars

\* The run under the assumption that every awaited query, generation call,
\* delivery call and timer completes: no step that is possible is put off
\* for ever
SpecRunFair == SpecRun /\ WF_vars(NextRun)

(***************************************************************************)
(* SpecBatch: a run over about one batch of conversations, under the       *)
(* limiter of the generation client, in which every external call returns  *)
(* text                                                                    *)
(***************************************************************************)
\* A limiter that grants as many requests in a window as a batch has
\* conversations
RateLimiterOfBatchSize == <<15, 60000>>

\* const geminiRateLimiter = new RateLimiter(14, 60000) (line 766)
GeminiRateLimiter == <<14, 60000>>

\* The numbers of conversations: one less than the batch size that handleEvent
\* passes (lines 1386, 1402), a batch, and one more
BatchLengths == {HandlerBatchSize - 1, HandlerBatchSize, HandlerBatchSize + 1}

InitBatch ==
  /\ InitLimiter({GeminiRateLimiter})
  /\ InitGenIdle
  /\ InitSelIdle
  /\ InitEvIdle
  /\ InitSplitIdle
  /\ InitHandleIdle
  /\ event \in RunEvents
  /\ path \in {"direct", "group"}
  /\ \E n \in BatchLengths : chats = ChatsOf([k \in 1..n |-> StoreOf(0, <<<<"hi", 0>>>>)])
  /\ batchSize = HandlerBatchSize
  /\ lastSummaryTimestamp = NoWatermark
  /\ rpc = "idle"
  /\ batchI = 0
  /\ idx = 0
  /\ summaries = <<>>
  /\ delayUntil = 0
  /\ runError = NoResult
  /\ batches = <<>>
  /\ processed = <<>>
  /\ deliveries = <<>>

NextBatchRun ==
  \/ RunCall
  \/ RunQuery
  \/ \E ok \in BOOLEAN : RunQueryDone(ok)
  \/ RunEntry
  \/ GenInvoke
  \/ GenComplete([kind |-> "text", message |-> NoMessage], 1)
  \/ WakeWaitForSlot(Self)
  \/ RunGenReturned("short")
  \/ RunDeliver
  \/ \E ok \in BOOLEAN : RunDeliverDone(ok)
  \/ RunDelayDone
  \/ RunCaught
  \/ AdvanceClockBy({0})

SpecBatch == InitBatch /\ [][NextBatchRun]_vars

(***************************************************************************)
(* SpecEvent: invocations of the summarize command                          *)
(***************************************************************************)
\* The commands collection when the first invocation arrives: empty, or with
\* the record of an earlier invocation from another conversation
EarlierCommands == {<<>>, <<CommandData(0, 1 * TicksPerMs)>>}

\* The chats collection: a conversation with one message and a conversation
\* with two
EventChats == ChatsOf(<<StoreOf(0, <<<<"hi", 0>>>>), StoreOf(0, <<<<"hi", 0>>, <<"hi", 0>>>>)>>)

InitEvent ==
  /\ InitLimiter({<<14, 60000>>})
  /\ InitGenIdle
  /\ InitSelIdle
  /\ InitSplitIdle
  /\ InitHandleIdle
  /\ event = NoEvent
  /\ path = "direct"
  /\ chats = EventChats
  /\ lastSummaryTimestamp = NoWatermark
  /\ batchSize = HandlerBatchSize
  /\ rpc = "idle"
  /\ batchI = 0
  /\ idx = 0
  /\ summaries = <<>>
  /\ delayUntil = 0
  /\ runError = NoResult
  /\ batches = <<>>
  /\ processed = <<>>
  /\ deliveries = <<>>
  /\ commands \in EarlierCommands
  /\ epc = [e \in Invocations |-> "none"]
  /\ eWatermark = [e \in Invocations |-> NoWatermark]
  /\ eIdx = [e \in Invocations |-> 0]
  /\ elog = [e \in Invocations |-> <<>>]

NextEvent ==
  \E e \in Invocations :
    \/ EvArrive(e)
    \/ \E ok \in BOOLEAN : EvResolve(e, ok)
    \/ \E ok \in BOOLEAN : EvProfile(e, ok)
    \/ \E ok \in BOOLEAN : EvAdd(e, ok)
    \/ \E ok \in BOOLEAN : EvList(e, ok)
    \/ \E outcome \in {"ok", "queryFailed", "generationFailed"} : EvChat(e, outcome)
    \/ \E ok \in BOOLEAN : EvDeliver(e, ok)

SpecEvent == InitEvent /\ [][NextEvent]_vars

(***************************************************************************)
(* SpecSuccessive: invocations of the summarize command that come one      *)
(* after the other, while messages go on being stored                      *)
(***************************************************************************)
MaxStored == 2         \* messages stored while the invocations are handled

\* The messages stored since the first invocation arrived
StoredSince ==
  {<<k, i>> \in (1..Len(chats)) \X (1..(Len(EventChats[1].messages) + Len(EventChats[2].messages) + MaxStored)) :
     /\ i <= Len(chats[k].messages)
     /\ chats[k].messages[i].timestamp > StoreStartMs * TicksPerMs}

\* A message with the text /summarize arrives when no earlier invocation is
\* under way (lines 1281-1318)
EvArriveAfter(e) ==
  /\ epc[e] = "none"
  /\ \A d \in Invocations : d < e => d \in Ended
  /\ epc' = [epc EXCEPT ![e] = "resolving"]
  /\ UNCHANGED <<rlVars, genVars, selVars, runVars, splVars, hVars, commands, eWatermark, eIdx, elog>>

\* The handler of another event stores a plain message in conversation k
\* (lines 1477-1507); the store stamps it on arrival
EvMessageStored(k) ==
  /\ Cardinality(StoredSince) < MaxStored
  /\ \E e \in Invocations : epc[e] \notin {"none", "done", "aborted"}
  /\ now' = now + 1
  /\ chats' = [chats EXCEPT ![k].messages =
                 Append(@, [id |-> Len(@) + 1, text |-> "hi", timestamp |-> ServerTimestamp(now')])]
  /\ UNCHANGED <<maxRequests, windowMs, requests, wpc, wakeAt, calls, cur, genVars, selVars, evVars,
                 splVars, hVars, event, path, lastSummaryTimestamp, batchSize, rpc, batchI, idx,
                 summaries, delayUntil, runError, batches, processed, deliveries>>

NextSuccessive ==
  \/ \E e \in Invocations :
       \/ EvArriveAfter(e)
       \/ \E ok \in BOOLEAN : EvResolve(e, ok)
       \/ \E ok \in BOOLEAN : EvProfile(e, ok)
       \/ \E ok \in BOOLEAN : EvAdd(e, ok)
       \/ \E ok \in BOOLEAN : EvList(e, ok)
       \/ \E outcome \in {"ok", "queryFailed", "generationFailed"} : EvChat(e, outcome)
       \/ \E ok \in BOOLEAN : EvDeliver(e, ok)
  \/ \E k \in 1..Len(chats) : EvMessageStored(k)

SpecSuccessive == InitEvent /\ [][NextSuccessive]_vars

(***************************************************************************)
(* SpecSplit: one call of splitIntoMessages                                *)
(***************************************************************************)
MaxTextLen == 5        \* characters of the text that is split

\* The texts are made of two letters, the blank and the line separator
Chars == {"a", "b", " ", NewLine}
Texts == UNION {[1..n -> Chars] : n \in 0..MaxTextLen}

\* The maxLength arguments tried: small ones, and the default (line 711)
MaxLengthChoices == {1, 2, 3, DefaultMaxLength}

InitSplit ==
  /\ InitLimiter({<<14, 60000>>})
  /\ InitGenIdle
  /\ InitSelIdle
  /\ InitRunIdle
  /\ InitEvIdle
  /\ InitHandleIdle
  /\ splitText \in Texts
  /\ maxLength \in MaxLengthChoices
  /\ splitLines = <<>>
  /\ lineIdx = 0
  /\ currentMessage = <<>>
  /\ segments = <<>>
  /\ closed = <<>>
  /\ spc = "idle"

NextSplit ==
  \/ SplitEnter
  \/ SplitLine
  \/ SplitReturn

SpecSplit == InitSplit /\ [][NextSplit]_vars

(***************************************************************************)
(* handleEvent of the revision at src/index.js:1545-1709: every message is *)
(* stored first, and /summarize summarizes the conversation it came from   *)
(***************************************************************************)
\* A reply with the event's token that the handler returns
ReplyOf(what) ==
  [op |-> "reply", to |-> event.replyToken, batch |-> 0, what |-> what, entries |-> <<>>,
   messages |-> 1, result |-> "pending", at |-> now, doneAt |-> now]

\* messageData of lines 1622-1631, stamped by the store after every message
\* the conversation holds
MessageData(store, text) ==
  [id |-> Len(store) + 1, text |-> text, timestamp |-> (Len(store) + 1) * TicksPerMs]

\* .orderBy('timestamp', 'desc').limit(20) (lines 1650-1651)
SummaryFetchLimit == 20

\* msg => msg.text && msg.text !== '/summarize' (line 1663)
NotOwnCommand(msg) == msg.text # "" /\ msg.text # "/summarize"

\* docs.map(doc => doc.data()).reverse().filter(...) (lines 1660-1663)
ChronologicalWithoutOwnCommand(snapshot) == SelectSeq(Reverse(snapshot), NotOwnCommand)

\* A text message arrives and the handler sends it to the store (lines 1611-1637)
ConvArrive ==
  /\ hpc = "idle"
  /\ hpc' = "saving"
  /\ UNCHANGED <<rlVars, genVars, selVars, runVars, evVars, splVars, messageText, cachedSheetsData,
                 writes>>

\* The add returns: a command goes on to the query of the conversation's
\* messages (lines 1644-1652), any other text is echoed (lines 1691-1695); a
\* failed add ends in the outer catch block, which echoes too (lines 1696-1701)
ConvSaved(ok) ==
  /\ hpc = "saving"
  /\ IF ok
     THEN /\ selStore' = Append(selStore, MessageData(selStore, messageText))
          /\ writes' = Append(writes, [collection |-> "messages", chatsId |-> TargetId(event),
                                       text |-> messageText])
          /\ IF ToLowerCase(messageText) = "/summarize"
             THEN hpc' = "fetching" /\ UNCHANGED deliveries
             ELSE hpc' = "done" /\ deliveries' = Append(deliveries, ReplyOf("echo"))
     ELSE /\ hpc' = "done"
          /\ deliveries' = Append(deliveries, ReplyOf("echo"))
          /\ UNCHANGED <<selStore, writes>>
  /\ UNCHANGED <<rlVars, genVars, evVars, splVars, selPath, selWatermark, selStage, selMessages,
                 event, path, chats, lastSummaryTimestamp, batchSize, rpc, batchI, idx, summaries,
                 delayUntil, runError, batches, processed, messageText, cachedSheetsData>>

\* The query returns (lines 1654-1675): with no message left to summarize the
\* handler replies so, else it builds the prompt and calls the model; a failed
\* query ends in the inner catch block (lines 1686-1690)
ConvFetched(ok) ==
  /\ hpc = "fetching"
  /\ IF ok
     THEN LET messages == ChronologicalWithoutOwnCommand(QueryRecent(selStore, SummaryFetchLimit)) IN
          /\ selMessages' = messages
          /\ IF Len(messages) = 0
             THEN hpc' = "done" /\ deliveries' = Append(deliveries, ReplyOf("no messages"))
             ELSE hpc' = "generating" /\ UNCHANGED deliveries
     ELSE /\ hpc' = "done"
          /\ deliveries' = Append(deliveries, ReplyOf("generic"))
          /\ UNCHANGED selMessages
  /\ UNCHANGED <<rlVars, genVars, evVars, splVars, selPath, selStore, selWatermark, selStage,
                 event, path, chats, lastSummaryTimestamp, batchSize, rpc, batchI, idx, summaries,
                 delayUntil, runError, batches, processed, messageText, cachedSheetsData, writes>>

\* model.generateContent returns and the summary is the reply (lines
\* 1676-1684), or it fails and the inner catch block replies (lines 1686-1690)
ConvGenerated(ok) ==
  /\ hpc = "generating"
  /\ hpc' = "done"
  /\ deliveries' = Append(deliveries, ReplyOf(IF ok THEN "summary" ELSE "generic"))
  /\ UNCHANGED <<rlVars, genVars, evVars, splVars, selVars,
                 event, path, chats, lastSummaryTimestamp, batchSize, rpc, batchI, idx, summaries,
                 delayUntil, runError, batches, processed, messageText, cachedSheetsData, writes>>

(***************************************************************************)
(* SpecConv: one event under the handler of lines 1545-1709                *)
(***************************************************************************)
\* The conversation holds k plain messages and a tail when the event arrives
ConvFillerCounts == {0, 18, 19, 20, 21}
ConvTexts == {"hi", "/summarize", "/SUMMARIZE"}

InitConv ==
  /\ InitLimiter({<<14, 60000>>})
  /\ InitGenIdle
  /\ InitEvIdle
  /\ InitSplitIdle
  /\ selPath = "conversation"
  /\ \E k \in ConvFillerCounts, tail \in Tails : selStore = StoreOf(k, tail)
  /\ selWatermark = NoWatermark
  /\ selStage = "idle"
  /\ selMessages = <<>>
  /\ event \in RunEvents
  /\ path = "none"
  /\ chats = <<>>
  /\ lastSummaryTimestamp = NoWatermark
  /\ batchSize = 0
  /\ rpc = "idle"
  /\ batchI = 0
  /\ idx = 0
  /\ summaries = <<>>
  /\ delayUntil = 0
  /\ runError = NoResult
  /\ batches = <<>>
  /\ processed = <<>>
  /\ deliveries = <<>>
  /\ hpc = "idle"
  /\ messageText \in ConvTexts
  /\ cachedSheetsData = {}
  /\ writes = <<>>

NextConv ==
  \/ ConvArrive
  \/ \E ok \in BOOLEAN : ConvSaved(ok)
  \/ \E ok \in BOOLEAN : ConvFetched(ok)
  \/ \E ok \in BOOLEAN : ConvGenerated(ok)

SpecConv == InitConv /\ [][NextConv]_vars

(***************************************************************************)
(* handleEvent (src/index.js:1281-1526) around the run: the commands, the  *)
(* lookup of a code, and the storing of the message                        *)
(***************************************************************************)
\* What no step of the handler outside the run changes
handleFrame ==
  <<rlVars, genVars, selVars, splVars, event, path, chats, batchSize, batchI, idx, summaries,
    delayUntil, batches, processed, epc, eWatermark, eIdx, elog, messageText, cachedSheetsData>>

\* A write to the store, as the history keeps it
Write(collection, text) == [collection |-> collection, chatsId |-> TargetId(event), text |-> text]

\* cachedSheetsData.find(row => row.code === event.message.text) (line 1432)
MatchingRow(text) == text \in cachedSheetsData

\* The lookup of a code and what follows it (lines 1427-1443): the link of a
\* matching row is the reply, else the handler goes on to store the message
CodeCheck ==
  IF MatchingRow(messageText)
  THEN /\ deliveries' = Append(deliveries, ReplyOf("link"))
       /\ hpc' = "done"
  ELSE /\ hpc' = "profile"
       /\ UNCHANGED deliveries

\* A text message arrives (lines 1281-1318, 1427-1443): a command starts its
\* first awaited call, any other text is looked up among the codes
HandleArrive ==
  /\ hpc = "idle"
  /\ IF ToLowerCase(messageText) = "/updatecode"
     THEN hpc' = "updating" /\ UNCHANGED deliveries
     ELSE IF ToLowerCase(messageText) = "/summarize"
     THEN hpc' = "resolving" /\ UNCHANGED deliveries
     ELSE CodeCheck
  /\ UNCHANGED <<handleFrame, lastSummaryTimestamp, rpc, runError, commands, writes>>

\* fetchGoogleSheetsData() returns or fails: the handler replies either way
\* (lines 1289-1310)
HandleUpdated(ok) ==
  /\ hpc = "updating"
  /\ deliveries' = Append(deliveries, ReplyOf(IF ok THEN "updated" ELSE "update failed"))
  /\ hpc' = "done"
  /\ UNCHANGED <<handleFrame, lastSummaryTimestamp, rpc, runError, commands, writes>>

\* getLastSummaryTimestamp() returns (lines 1024-1041, 1318)
HandleResolved(ok) ==
  /\ hpc = "resolving"
  /\ lastSummaryTimestamp' = IF ok THEN LatestTimestamp(commands, Len(commands)) ELSE NoWatermark
  /\ hpc' = "commandProfile"
  /\ UNCHANGED <<handleFrame, rpc, runError, deliveries, commands, writes>>

\* The profile lookup for the command record returns, or fails and the record
\* is given up (lines 1333-1345)
HandleCommandProfile(ok) ==
  /\ hpc = "commandProfile"
  /\ hpc' = IF ok THEN "commandAdd" ELSE "listing"
  /\ UNCHANGED <<handleFrame, lastSummaryTimestamp, rpc, runError, deliveries, commands, writes>>

\* db.collection('commands').add(commandData) returns, or fails and is logged
\* (lines 1341-1345)
HandleCommandAdded(ok) ==
  /\ hpc = "commandAdd"
  /\ IF ok
     THEN /\ commands' = Append(commands, CommandData(0, ServerTimestamp(now)))
          /\ writes' = Append(writes, Write("commands", "/summarize"))
     ELSE UNCHANGED <<commands, writes>>
  /\ hpc' = "listing"
  /\ UNCHANGED <<handleFrame, lastSummaryTimestamp, rpc, runError, deliveries>>

\* db.collection('chats').get() returns (lines 1350-1359, 1392-1396): with
\* conversations processChatsInBatches is called, without any the handler
\* queries the messages of all conversations; a failed query is caught (line
\* 1408)
HandleListed(ok) ==
  /\ hpc = "listing"
  /\ IF ok
     THEN /\ IF path = "direct"
             THEN hpc' = "running" /\ rpc' = "idle"
             ELSE hpc' = "groupQuery" /\ UNCHANGED rpc
          /\ UNCHANGED runError
     ELSE /\ hpc' = "running"
          /\ runError' = StoreError
          /\ rpc' = "caught"
  /\ UNCHANGED <<handleFrame, lastSummaryTimestamp, deliveries, commands, writes>>

\* db.collectionGroup('messages').limit(5).get() returns (lines 1359-1389):
\* with no message the handler replies so, else
\* processCollectionGroupChatsInBatches is called
HandleGroupQueried(ok) ==
  /\ hpc = "groupQuery"
  /\ IF ok
     THEN /\ IF chats = <<>>
             THEN /\ deliveries' = Append(deliveries, ReplyOf("no messages"))
                  /\ hpc' = "done"
                  /\ UNCHANGED rpc
             ELSE /\ hpc' = "running"
                  /\ rpc' = "idle"
                  /\ UNCHANGED deliveries
          /\ UNCHANGED runError
     ELSE /\ hpc' = "running"
          /\ runError' = StoreError
          /\ rpc' = "caught"
          /\ UNCHANGED deliveries
  /\ UNCHANGED <<handleFrame, lastSummaryTimestamp, commands, writes>>

\* The batch function returned (lines 1389-1406): on the collection-group
\* path processChatsInBatches is then called with no conversation and returns
\* at once; the handler leaves the /summarize branch and looks the text up
\* among the codes (lines 1427-1443)
HandleAfterRun ==
  /\ hpc = "running"
  /\ rpc = "done"
  /\ CodeCheck
  /\ UNCHANGED <<handleFrame, lastSummaryTimestamp, rpc, runError, commands, writes>>

\* The reply of the catch block was returned (line 1423): the handler is
\* through
HandleAfterCaught ==
  /\ hpc = "running"
  /\ rpc = "aborted"
  /\ hpc' = "done"
  /\ UNCHANGED <<handleFrame, lastSummaryTimestamp, rpc, runError, deliveries, commands, writes>>

\* The profile lookups of lines 1451-1474 return or fail; either way the
\* handler goes on to ensure the conversation's document (lines 1493-1502)
HandleProfile ==
  /\ hpc = "profile"
  /\ hpc' = "setting"
  /\ UNCHANGED <<handleFrame, lastSummaryTimestamp, rpc, runError, deliveries, commands, writes>>

\* chatDocRef.set(..., { merge: true }) returns (lines 1495-1502), or fails:
\* the error is thrown again (line 1511) and the outer catch block echoes the
\* text (lines 1519-1524)
HandleChatSet(ok) ==
  /\ hpc = "setting"
  /\ IF ok
     THEN /\ writes' = Append(writes, Write("chats", ""))
          /\ hpc' = "adding"
          /\ UNCHANGED deliveries
     ELSE /\ deliveries' = Append(deliveries, ReplyOf("echo"))
          /\ hpc' = "done"
          /\ UNCHANGED writes
  /\ UNCHANGED <<handleFrame, lastSummaryTimestamp, rpc, runError, commands>>

\* chatDocRef.collection('messages').add(messageData) returns and the handler
\* returns null (lines 1505-1518), or fails and the outer catch block echoes
HandleMessageAdded(ok) ==
  /\ hpc = "adding"
  /\ IF ok
     THEN /\ writes' = Append(writes, Write("messages", messageText))
          /\ UNCHANGED deliveries
     ELSE /\ deliveries' = Append(deliveries, ReplyOf("echo"))
          /\ UNCHANGED writes
  /\ hpc' = "done"
  /\ UNCHANGED <<handleFrame, lastSummaryTimestamp, rpc, runError, commands>>

(***************************************************************************)
(* SpecHandle: one event under handleEvent                                 *)
(***************************************************************************)
\* The texts that arrive: the commands, a plain text and a code
HandleTexts == {"/summarize", "/SUMMARIZE", "/updatecode", "hi", "code"}

\* The codes of the cached sheet
SheetChoices == {{}, {"code"}, {"/summarize"}}

\* The conversations of the store: none has a message to summarize, or some
HandleStores == {StoreOf(0, <<>>), StoreOf(0, <<<<"hi", 0>>>>), StoreOf(0, <<<<"/SUMMARIZE", 0>>>>)}

\* What the external call does: it returns text or fails for good
HandleCallResults ==
  {[kind |-> "text", message |-> NoMessage],
   [kind |-> "error", message |-> [present |-> TRUE, has |-> {}]]}

InitHandle ==
  /\ InitLimiter({GeminiRateLimiter})
  /\ InitGenIdle
  /\ InitSelIdle
  /\ InitSplitIdle
  /\ event \in RunEvents
  /\ \/ /\ path = "direct"
        /\ \E n \in 1..MaxChats : \E stores \in [1..n -> HandleStores] : chats = ChatsOf(stores)
     \/ /\ path = "group"
        /\ \E n \in 0..MaxChats : \E stores \in [1..n -> HandleStores \ {<<>>}] :
             chats = ChatsOf(stores)
  /\ batchSize \in {1, HandlerBatchSize}
  /\ lastSummaryTimestamp = NoWatermark
  /\ rpc = "uncalled"
  /\ batchI = 0
  /\ idx = 0
  /\ summaries = <<>>
  /\ delayUntil = 0
  /\ runError = NoResult
  /\ batches = <<>>
  /\ processed = <<>>
  /\ deliveries = <<>>
  /\ commands \in EarlierCommands
  /\ epc = [e \in Invocations |-> "none"]
  /\ eWatermark = [e \in Invocations |-> NoWatermark]
  /\ eIdx = [e \in Invocations |-> 0]
  /\ elog = [e \in Invocations |-> <<>>]
  /\ hpc = "idle"
  /\ messageText \in HandleTexts
  /\ cachedSheetsData \in SheetChoices
  /\ writes = <<>>

NextHandle ==
  \/ HandleArrive
  \/ \E ok \in BOOLEAN : HandleUpdated(ok)
  \/ \E ok \in BOOLEAN : HandleResolved(ok)
  \/ \E ok \in BOOLEAN : HandleCommandProfile(ok)
  \/ \E ok \in BOOLEAN : HandleCommandAdded(ok)
  \/ \E ok \in BOOLEAN : HandleListed(ok)
  \/ \E ok \in BOOLEAN : HandleGroupQueried(ok)
  \/ RunCall
  \/ RunQuery
  \/ \E ok \in BOOLEAN : RunQueryDone(ok)
  \/ RunEntry
  \/ GenInvoke
  \/ \E r \in HandleCallResults : GenComplete(r, 1)
  \/ RunGenReturned("short")
  \/ RunGenThrew
  \/ RunDeliver
  \/ RunNothingToDeliver
  \/ \E ok \in BOOLEAN : RunDeliverDone(ok)
  \/ RunDelayDone
  \/ RunCaught
  \/ AdvanceClockBy({0})
  \/ HandleAfterRun
  \/ HandleAfterCaught
  \/ HandleProfile
  \/ \E ok \in BOOLEAN : HandleChatSet(ok)
  \/ \E ok \in BOOLEAN : HandleMessageAdded(ok)

SpecHandle == InitHandle /\ [][NextHandle]_vars

\* The handler under the assumption that every awaited call and timer
\* completes
SpecHandleFair == SpecHandle /\ WF_vars(NextHandle)

(***************************************************************************)
(* Claims on the RateLimiter                                               *)
(***************************************************************************)
GrantedIn(lo, hi) == {i \in 1..Len(calls) : calls[i].granted # NotGranted
                                           /\ calls[i].granted >= lo /\ calls[i].granted < hi}

\* C1: under any interleaving of waitForSlot calls on the shared limiter, every
\* time interval [t, t + windowMs) contains at most maxRequests granted calls.
\* A woken caller is granted only through a fresh prune-and-check of the window.
C1_WindowBound ==
  \A t \in 0..MaxTime + 1 : Cardinality(GrantedIn(t, t + windowMs)) <= maxRequests

\* C1 witness: a caller was suspended at the limit, woke, found the window full
\* again and was suspended a second time, and was granted in the end, while
\* another caller holds a granted slot.
C1_Witness ==
  \E i \in 1..Len(calls) :
    /\ calls[i].suspends >= 2
    /\ calls[i].granted # NotGranted
    /\ \E p \in Callers : cur[p] \notin {0, i} /\ calls[cur[p]].granted # NotGranted

\* C2: on a fresh limiter, when maxRequests + 1 calls are issued within windowMs,
\* the first maxRequests are granted at once, without suspending, and the next
\* one suspends and is granted no earlier than windowMs - elapsed after it was
\* issued, elapsed being the time since the oldest recorded request.
C2_BurstSuspends ==
  LET n == maxRequests
      InBurst(k) == k <= Len(calls) /\ calls[k].issued - calls[1].issued < windowMs IN
  /\ \A k \in 1..n : InBurst(k) => calls[k].suspends = 0 /\ calls[k].granted = calls[k].issued
  /\ InBurst(n + 1) =>
       /\ calls[n + 1].suspends >= 1
       /\ calls[n + 1].granted # NotGranted =>
            calls[n + 1].granted - calls[n + 1].issued
              >= windowMs - (calls[n + 1].issued - calls[1].granted)

\* C2 witness: the call after the first maxRequests was issued inside the
\* window, some time after the oldest request, suspended and was granted.
C2_Witness ==
  /\ Len(calls) > maxRequests
  /\ maxRequests > 1
  /\ calls[maxRequests + 1].issued - calls[1].issued < windowMs
  /\ calls[maxRequests + 1].issued > calls[1].issued
  /\ calls[maxRequests + 1].suspends >= 1
  /\ calls[maxRequests + 1].granted # NotGranted

(***************************************************************************)
(* Claims on generateContentWithRetry                                      *)
(***************************************************************************)
\* The positions of the history at which step ev happened
Steps(ev) == {i \in 1..Len(trace) : trace[i].ev = ev}

\* C3: generateContentWithRetry invokes the external generate operation at most
\* maxRetries times, and the first successful invocation is followed at once by
\* the return of the text and by nothing else: no invocation, no slot
\* acquisition, no sleep.
C3_ReturnsOnFirstSuccess ==
  /\ Cardinality(Steps("invoke")) <= maxRetries
  /\ \A i \in Steps("ok") :
       /\ Len(trace) = i + 1
       /\ trace[i + 1].ev = "return"
       /\ trace[i + 1].at = trace[i].at
       /\ gpc = "returned"
       /\ genOutcome.kind = "text"

\* C3 witness: a call with attempts to spare returned the text of its second
\* attempt.
C3_Witness ==
  /\ gpc = "returned"
  /\ genOutcome.kind = "text"
  /\ attempt = 2
  /\ maxRetries = 3

\* C4: a throttling failure of attempt k < maxRetries is followed by a sleep of
\* 2^k units (of 1000 ms) and then by attempt k + 1, begun no sooner than the
\* sleep allows; a throttling failure of attempt maxRetries is followed at once
\* by the RateLimitExceeded error, without a sleep.  So a call sleeps at most
\* maxRetries - 1 times.
C4_BackoffOnThrottling ==
  /\ \A i \in Steps("throttled") :
       LET k == trace[i].attempt IN
       IF k < maxRetries
       THEN /\ trace[i + 1].ev = "sleep"
            /\ trace[i + 1].arg = (2 ^ k) * 1000
            /\ Len(trace) >= i + 2 =>
                 /\ trace[i + 2].ev = "acquire"
                 /\ trace[i + 2].attempt = k + 1
                 /\ trace[i + 2].at >= trace[i].at + (2 ^ k) * 1000
       ELSE /\ Len(trace) = i + 1
            /\ trace[i + 1].ev = "throw"
            /\ trace[i + 1].at = trace[i].at
            /\ gpc = "threw"
            /\ genOutcome = RateLimitExceeded
  /\ \A i \in Steps("sleep") : i > 1 /\ trace[i - 1].ev = "throttled"
  /\ maxRetries >= 1 => Cardinality(Steps("sleep")) <= maxRetries - 1

\* C4 witness: a call with maxRetries = 3 was throttled three times, slept 2 and
\* then 4 units, and failed with RateLimitExceeded.
C4_Witness ==
  /\ maxRetries = 3
  /\ gpc = "threw"
  /\ genOutcome = RateLimitExceeded
  /\ Cardinality(Steps("throttled")) = 3
  /\ {trace[i].arg : i \in Steps("sleep")} = {2000, 4000}

\* C5: a failure of the external call that is not classified as throttling is
\* followed at once by the failure of the call with that error, whatever the
\* attempt: no sleep, no slot acquisition and no invocation follow.
C5_OtherErrorFailsAtOnce ==
  \A i \in Steps("failed") :
    /\ Len(trace) = i + 1
    /\ trace[i + 1].ev = "throw"
    /\ trace[i + 1].at = trace[i].at
    /\ gpc = "threw"
    /\ genOutcome = [kind |-> "error", message |-> trace[i].err]

\* C5 witness: the second attempt, made after a backoff, failed with an error
\* that is not a throttling error, with an attempt to spare.
C5_Witness ==
  /\ maxRetries = 3
  /\ \E i \in Steps("failed") : trace[i].attempt = 2 /\ ~IsRateLimitError(trace[i].err)
  /\ gpc = "threw"

(***************************************************************************)
(* Claims on the selection of messages                                     *)
(***************************************************************************)
\* Message msg is one of the selected messages
Selected(msg) == \E j \in 1..Len(selMessages) : selMessages[j] = msg

\* The text is the trigger command, compared without regard to case
IsTrigger(text) == ToLowerCase(text) = "/summarize"

SelectedDirect == selStage = "selected" /\ selPath = "direct"

\* C7 as stated: with watermark T present, a stored message m is summarized by
\* processChatsInBatches if and only if m.timestamp > T and m.text is not the
\* trigger command.
C7_AllNewerMessages ==
  (SelectedDirect /\ selWatermark # NoWatermark) =>
    \A i \in 1..Len(selStore) :
      Selected(selStore[i]) <=>
        (selStore[i].timestamp > selWatermark /\ ~IsTrigger(selStore[i].text))

\* C7 as amended: with watermark T present, a stored message m is summarized
\* by processChatsInBatches if and only if m is among the 100 most recent
\* messages of its conversation, m.timestamp is later than T when both are
\* taken to the millisecond, and m.text is not the trigger command.
C7_NewerAmongLast100 ==
  (SelectedDirect /\ selWatermark # NoWatermark) =>
    \A i \in 1..Len(selStore) :
      Selected(selStore[i]) <=>
        /\ i > Len(selStore) - 100
        /\ ToDate(selStore[i].timestamp) > ToDate(selWatermark)
        /\ ~IsTrigger(selStore[i].text)

\* C7 witness: a conversation of 101 messages, all newer than the watermark,
\* was selected from: the oldest was left out, others were taken.
C7_Witness ==
  /\ SelectedDirect
  /\ selWatermark # NoWatermark
  /\ Len(selStore) = 101
  /\ \A i \in 1..Len(selStore) : selStore[i].timestamp > selWatermark
  /\ ~Selected(selStore[1])
  /\ Len(selMessages) >= 99

\* C8: with no watermark, the messages processChatsInBatches considers for a
\* conversation are exactly the last 30, in chronological order, of the
\* conversation's messages other than the trigger command.
C8_Last30WithoutCommand ==
  (SelectedDirect /\ selWatermark = NoWatermark) =>
    selMessages = LastN(SelectSeq(selStore, LAMBDA msg : ~IsTrigger(msg.text)), 30)

(***************************************************************************)
(* Claims on a run of a batch-processing function                          *)
(***************************************************************************)
\* The batch that conversation k belongs to
BatchOfChat(k) == ((k - 1) \div batchSize) + 1

\* The conversation whose generation call step i of the trace belongs to
ChatOfStep(i) ==
  LET enter == CHOOSE j \in Steps("enter") :
                 j <= i /\ \A l \in Steps("enter") : l <= i => l <= j
  IN  trace[enter].arg

Digests == {d \in 1..Len(deliveries) : deliveries[d].what = "digest"}

\* C6: when the generation for a conversation of batch b fails, the run
\* aborts: no generation call is made for any later conversation, and no
\* digest is delivered for batch b or for a later batch.
C6_GenerationFailureAborts ==
  \A i \in Steps("throw") :
    /\ rpc \in {"generating", "caught", "aborted"}
    /\ i = Len(trace)
    /\ \A d \in Digests : deliveries[d].batch < BatchOfChat(ChatOfStep(i))

\* C6 witness: the run was aborted by a failed generation while the batch
\* held a summary that was already produced, and that summary was not sent.
C6_Witness ==
  /\ rpc = "aborted"
  /\ Steps("throw") # {}
  /\ Len(summaries) >= 1
  /\ Digests = {}

\* C9: on both paths, no message whose text is the trigger command, compared
\* without regard to case, is part of a prompt sent to the generation service
\* or of a delivered digest.
C9_NoCommandInPromptOrDigest ==
  /\ \A j \in 1..Len(prompt.lines) : ~IsTrigger(prompt.lines[j].text)
  /\ \A e \in 1..Len(summaries) : \A j \in 1..Len(summaries[e].of) :
       ~IsTrigger(summaries[e].of[j].text)
  /\ \A d \in Digests : \A e \in 1..Len(deliveries[d].entries) :
       \A j \in 1..Len(deliveries[d].entries[e].of) :
         ~IsTrigger(deliveries[d].entries[e].of[j].text)

\* C9 witness: a digest was delivered with the summary of a conversation that
\* holds the command in capitals among its messages.
C9_Witness ==
  \E d \in Digests :
    /\ deliveries[d].result = "ok"
    /\ \E e \in 1..Len(deliveries[d].entries) :
         LET stored == chats[deliveries[d].entries[e].chat].messages IN
         /\ \E m \in 1..Len(stored) : stored[m].text = "/SUMMARIZE"
         /\ Len(deliveries[d].entries[e].of) >= 1

\* The conversations found to have no qualifying message
SkippedChats == {processed[q].chat : q \in {r \in 1..Len(processed) : processed[r].selected = <<>>}}

\* C10: for a conversation with no qualifying message the run acquires no
\* limiter slot, makes no generation call and adds no digest entry; a batch
\* whose conversations are all skipped triggers no delivery.
C10_SkippedChatCostsNothing ==
  /\ Len(calls) = Cardinality(Steps("acquire"))
  /\ \A i \in Steps("enter") \cup Steps("acquire") \cup Steps("invoke") :
       ChatOfStep(i) \notin SkippedChats
  /\ \A e \in 1..Len(summaries) : summaries[e].chat \notin SkippedChats
  /\ \A d \in Digests :
       /\ \A e \in 1..Len(deliveries[d].entries) :
            deliveries[d].entries[e].chat \notin SkippedChats
       /\ \E k \in 1..totalChats : BatchOfChat(k) = deliveries[d].batch /\ k \notin SkippedChats
  /\ (rpc = "done" /\ SkippedChats = 1..totalChats) => deliveries = <<>>

\* C10 witness: the first batch had one conversation, whose only message was
\* the command; nothing was sent for it, and the run went on to send the
\* digest of the second batch.
C10_Witness ==
  /\ rpc = "done"
  /\ batchSize = 1
  /\ chats[1].messages # <<>>
  /\ 1 \in SkippedChats
  /\ Len(deliveries) = 1
  /\ deliveries[1].batch = 2
  /\ Len(calls) = 1

(***************************************************************************)
(* Claims on the invocations of the summarize command                      *)
(***************************************************************************)
\* The positions of the history of invocation e at which step ev happened
StepsOf(e, ev) == {i \in 1..Len(elog[e]) : elog[e][i].ev = ev}

\* The records of the commands collection that invocation e wrote
RecordsOf(e) == {i \in 1..Len(commands) : commands[i].userId = e}

\* Every message of sequence a is in sequence b
Within(a, b) == \A m \in 1..Len(a) : \E n \in 1..Len(b) : b[n] = a[m]

\* C11: a run that aborts before it delivers its digest does not advance the
\* watermark: the next run does not take the aborted run's record as its
\* watermark, and selects again the messages the aborted run selected.
C11_AbortedRunKeepsWatermark ==
  \A e1, e2 \in Invocations :
    ( /\ e1 # e2
      /\ epc[e1] = "aborted"
      /\ \A d \in Invocations \ {e2} : StepsOf(d, "delivered") = {}
      /\ elog[e2] # <<>>
      /\ e1 \in elog[e2][1].ended )
    => /\ \A r \in RecordsOf(e1) : elog[e2][1].wm # commands[r].timestamp
       /\ \A i \in StepsOf(e1, "selected"), j \in StepsOf(e2, "selected") :
            elog[e1][i].chat = elog[e2][j].chat => Within(elog[e1][i].of, elog[e2][j].of)

\* The watermark of invocation e is resolved once, as the first step and so
\* before its own record is appended, from the records the collection held
\* then, none of them its own; and every selection of the run uses that value
ResolvedOnceAndApplied(e) ==
  /\ StepsOf(e, "resolved") \subseteq {1}
  /\ epc[e] \notin {"none", "resolving"} => StepsOf(e, "resolved") = {1}
  /\ elog[e] # <<>> =>
       /\ \A r \in RecordsOf(e) : r > elog[e][1].seen
       /\ eWatermark[e] = elog[e][1].wm
       /\ \A i \in StepsOf(e, "selected") : elog[e][i].wm = elog[e][1].wm

\* C12 as stated: the watermark is resolved once per run from the globally
\* most recent Trigger Record, before the run's own record is appended, and
\* that value is applied to every conversation of the run, whatever is
\* appended meanwhile.
C12_WatermarkFromNewestRecord ==
  \A e \in Invocations :
    /\ ResolvedOnceAndApplied(e)
    /\ elog[e] # <<>> => elog[e][1].wm = LatestTimestamp(commands, elog[e][1].seen)

\* C12 as amended: the same, where the lookup of the most recent Trigger Record
\* succeeds; where it fails the run has no watermark, although records exist.
C12_WatermarkFromNewestRecordIfRead ==
  \A e \in Invocations :
    /\ ResolvedOnceAndApplied(e)
    /\ elog[e] # <<>> =>
         elog[e][1].wm = IF elog[e][1].ok THEN LatestTimestamp(commands, elog[e][1].seen)
                         ELSE NoWatermark

\* C12 witness: a run took as its watermark the record of an invocation from
\* another conversation, a newer record was appended after it had selected
\* from its first conversation, and it selected from the second conversation
\* with the watermark it had resolved.
C12_Witness ==
  \E e \in Invocations :
    /\ elog[e] # <<>>
    /\ elog[e][1].ok
    /\ elog[e][1].seen >= 1
    /\ \E r \in 1..elog[e][1].seen :
         commands[r].timestamp = elog[e][1].wm /\ commands[r].chatsId # e
    /\ \E i, j \in StepsOf(e, "selected") :
         /\ elog[e][i].chat = 1
         /\ elog[e][j].chat = 2
         /\ elog[e][j].seen > elog[e][i].seen
         /\ elog[e][j].wm = elog[e][1].wm
         /\ elog[e][j].wm < LatestTimestamp(commands, elog[e][j].seen)

\* C13: every invocation of the summarize command appends exactly one Trigger
\* Record, before any conversation of its run is processed, and the records
\* written earlier stay as they are.
C13_OneTriggerRecordPerInvocation ==
  \A e \in Invocations :
    /\ Cardinality(RecordsOf(e)) <= 1
    /\ epc[e] \in {"listing", "processing", "done", "aborted"} =>
         /\ Cardinality(RecordsOf(e)) = 1
         /\ Cardinality(StepsOf(e, "appended")) = 1
         /\ \A a \in StepsOf(e, "appended"), i \in StepsOf(e, "selected") : a < i

(***************************************************************************)
(* Claims on the batches of a run and on their delivery                    *)
(***************************************************************************)
\* Batch b is through: the loop went on to the next one, or the run returned
Over(b) == Len(batches) > b \/ rpc = "done"

\* The conversations of batch b for which a summary was asked
SummarizedIn(b) ==
  {processed[q].chat : q \in {r \in 1..Len(processed) :
                                processed[r].batch = b /\ processed[r].selected # <<>>}}

\* The digest deliveries of batch b
DigestsOf(b) == {d \in Digests : deliveries[d].batch = b}

\* C14: processChatsInBatches cuts n conversations into ceil(n / batchSize)
\* consecutive batches in supply order, each of batchSize conversations except
\* possibly the last, and every conversation is in exactly one batch.
C14_BatchesPartition ==
  /\ \A b \in 1..Len(batches) :
       /\ batches[b].number = b
       /\ batches[b].from = (b - 1) * batchSize + 1
       /\ batches[b].to = (IF b * batchSize <= totalChats THEN b * batchSize ELSE totalChats)
       /\ batches[b].from <= batches[b].to
  /\ \A q \in 1..Len(processed) :
       /\ processed[q].chat = q
       /\ processed[q].batch <= Len(batches)
       /\ batches[processed[q].batch].from <= q
       /\ q <= batches[processed[q].batch].to
  /\ rpc = "done" =>
       /\ Len(processed) = totalChats
       /\ Len(batches) * batchSize >= totalChats
       /\ (Len(batches) - 1) * batchSize < totalChats

\* C14 witness: a run over 32 conversations with batchSize 15 has returned
\* after 3 batches of 15, 15 and 2 conversations.
C14_Witness ==
  /\ rpc = "done"
  /\ totalChats = 32
  /\ batchSize = 15
  /\ Len(batches) = 3
  /\ <<batches[1].from, batches[1].to>> = <<1, 15>>
  /\ <<batches[2].from, batches[2].to>> = <<16, 30>>
  /\ <<batches[3].from, batches[3].to>> = <<31, 32>>
  /\ Len(processed) = 32

\* C15: a batch that produced a summary is sent in one delivery operation,
\* with its summaries in order: as a reply on the event's reply token if and
\* only if it is batch 1, otherwise as a push to the group id if the event has
\* one, else to the user id.
C15_OneDeliveryPerBatch ==
  /\ \A d \in Digests :
       /\ deliveries[d].op = "reply" <=> deliveries[d].batch = 1
       /\ deliveries[d].op \in {"reply", "push"}
       /\ deliveries[d].op = "reply" => deliveries[d].to = event.replyToken
       /\ deliveries[d].op = "push" =>
            deliveries[d].to = (IF event.source.groupId # "" THEN event.source.groupId
                                ELSE event.source.userId)
       /\ \A e \in 1..Len(deliveries[d].entries) :
            /\ deliveries[d].entries[e].chat \in SummarizedIn(deliveries[d].batch)
            /\ \A f \in 1..Len(deliveries[d].entries) :
                 e < f => deliveries[d].entries[e].chat < deliveries[d].entries[f].chat
       /\ Len(deliveries[d].entries) = Cardinality(SummarizedIn(deliveries[d].batch))
  /\ \A b \in 1..Len(batches) :
       /\ Cardinality(DigestsOf(b)) <= 1
       /\ Over(b) => (DigestsOf(b) # {} <=> SummarizedIn(b) # {})

\* C15 witness: the run of an event from a group has returned after a reply
\* for batch 1 and a push to the group for batch 2.
C15_Witness ==
  /\ rpc = "done"
  /\ event.source.groupId # ""
  /\ \E d1, d2 \in Digests :
       /\ deliveries[d1].batch = 1 /\ deliveries[d1].op = "reply"
       /\ deliveries[d2].batch = 2 /\ deliveries[d2].op = "push"
       /\ deliveries[d2].to = event.source.groupId
       /\ deliveries[d2].result = "ok"

\* C16 as stated: after every batch for which more batches remain, the
\* inter-batch delay of 60 s passes before the next batch starts.
C16_DelayAfterEveryBatch ==
  \A b \in 1..Len(batches) :
    b > 1 => batches[b].startedAt >= batches[b - 1].startedAt + BatchDelayMs

\* C16 as amended: after every batch that produced a summary and for which
\* more batches remain, the delay of 60 s passes between the delivery and the
\* first operation of the next batch; after a batch that produced no summary
\* the next batch starts at once.
C16_DelayAfterBatchWithSummaries ==
  /\ \A b \in 1..Len(batches) :
       b > 1 =>
         IF SummarizedIn(b - 1) # {}
         THEN \E d \in DigestsOf(b - 1) :
                /\ deliveries[d].result = "ok"
                /\ batches[b].startedAt >= deliveries[d].doneAt + BatchDelayMs
         ELSE batches[b].startedAt = batches[b - 1].startedAt
  /\ \A i \in 1..Len(trace) :
       trace[i].at >= batches[BatchOfChat(ChatOfStep(i))].startedAt
  /\ \A d \in Digests : deliveries[d].at >= batches[deliveries[d].batch].startedAt

\* C16 witness: batch 1 was delivered, and the generation call of batch 2 was
\* invoked 60 s or more after that delivery.
C16_Witness ==
  /\ Len(batches) >= 2
  /\ \E d \in DigestsOf(1) : \E i \in Steps("invoke") :
       /\ deliveries[d].result = "ok"
       /\ BatchOfChat(ChatOfStep(i)) = 2
       /\ trace[i].at >= deliveries[d].doneAt + BatchDelayMs

\* C17: between two consecutive batches of which the earlier was delivered,
\* the delay of 60 s elapses between that delivery and the start of the later
\* batch; and no delay is slept after the final batch.
C17_DelayBetweenDeliveredBatches ==
  /\ \A b \in 1..Len(batches) : \A d \in DigestsOf(b) :
       (deliveries[d].result = "ok" /\ Len(batches) > b) =>
          batches[b + 1].startedAt >= deliveries[d].doneAt + BatchDelayMs
  /\ rpc = "delay" => batchNumber < totalBatches
  /\ \A d \in DigestsOf(totalBatches) :
       (rpc = "done" /\ deliveries[d].result = "ok") => now = deliveries[d].doneAt

\* C17 witness: two consecutive batches were both delivered, the second 60 s
\* or more after the first, and the run returned with no further delay.
C17_Witness ==
  /\ rpc = "done"
  /\ Len(batches) >= 2
  /\ \E d1 \in DigestsOf(1), d2 \in DigestsOf(2) :
       /\ deliveries[d1].result = "ok"
       /\ deliveries[d2].result = "ok"
       /\ batches[2].startedAt >= deliveries[d1].doneAt + BatchDelayMs
       /\ totalBatches = 2
       /\ now = deliveries[d2].doneAt

\* C18: a failed push of a batch b >= 2 does not abort the run.
C18_PushFailureDoesNotAbort ==
  \A d \in Digests :
    (deliveries[d].op = "push" /\ deliveries[d].result = "failed") =>
       rpc \notin {"caught", "aborted"}

\* C19: a failed reply of batch 1 is fatal and is not retried: after it no
\* conversation is processed, no generation call is made and no push is sent.
C19_ReplyFailureAborts ==
  \A d \in Digests :
    (deliveries[d].op = "reply" /\ deliveries[d].result = "failed") =>
       /\ rpc \in {"caught", "aborted"}
       /\ Cardinality(DigestsOf(1)) = 1
       /\ \A c \in 1..Len(deliveries) : deliveries[c].op # "push"
       /\ Len(batches) = 1
       /\ \A q \in 1..Len(processed) : processed[q].batch = 1
       /\ \A i \in 1..Len(trace) : trace[i].at <= deliveries[d].at
       /\ gpc = "idle"

\* C19 witness: the reply of batch 1 failed while a second batch was still to
\* come, and the run ended there.
C19_Witness ==
  /\ rpc = "aborted"
  /\ totalBatches >= 2
  /\ \E d \in DigestsOf(1) : deliveries[d].op = "reply" /\ deliveries[d].result = "failed"

\* C20: a failed read of a conversation's messages does not end the run: the
\* conversation is skipped and the run goes on.
C20_QueryFailureSkipsChat ==
  rpc \in {"caught", "aborted"} => runError.kind # "queryError"

\* The notices that the catch block of handleEvent sent
Notices == {d \in 1..Len(deliveries) : deliveries[d].batch = 0}

\* The kind of the error that generateContentWithRetry threw last: the one it
\* makes itself when the retries of a throttled call are used up, or the error
\* of the service passed on
ThrownKind ==
  IF trace[Len(trace) - 1].ev = "throttled" THEN "RateLimitExceeded" ELSE "Upstream"

\* C21: when a generation error aborts the run, the notice sent is chosen by
\* the kind of the error: it is the "try again in a few minutes" notice if and
\* only if the kind is RateLimitExceeded, and the generic failure notice when
\* the kind is Upstream.
C21_NoticeByKind ==
  \A d \in Notices :
    runError.kind = "error" =>
      /\ deliveries[d].what = "rate limited" <=> ThrownKind = "RateLimitExceeded"
      /\ ThrownKind = "Upstream" => deliveries[d].what = "generic"

(***************************************************************************)
(* Claims on splitIntoMessages                                             *)
(***************************************************************************)
\* The texts of a sequence, joined with the line separator between them
RECURSIVE JoinLines(_)
JoinLines(ts) ==
  IF Len(ts) = 0 THEN <<>>
  ELSE IF Len(ts) = 1 THEN ts[1]
  ELSE ts[1] \o <<NewLine>> \o JoinLines(Tail(ts))

\* The lines of all the texts of a sequence, in order
RECURSIVE LinesOf(_)
LinesOf(ts) == IF Len(ts) = 0 THEN <<>> ELSE Split(ts[1]) \o LinesOf(Tail(ts))

\* The characters of a text that are not white space
Inked(s) == SelectSeq(s, LAMBDA c : c \notin WhiteSpace)

\* No line of the text is empty, or begins or ends with white space
CleanLines == \A j \in 1..Len(splitLines) : splitLines[j] # <<>> /\ Trim(splitLines[j]) = splitLines[j]

\* C22 as stated: concatenating the returned segments in order, with the line
\* separators reinserted between them, reproduces the input text.
C22_RoundTrip ==
  spc = "done" => JoinLines(segments) = splitText

\* C22: concatenating the returned segments in order, with a line separator
\* between them, reproduces the input text when no line of it is empty or
\* begins or ends with white space; for every text it reproduces the input
\* without the white space that was trimmed: the characters other than white
\* space are the same, in the same order.
C22_RoundTripUpToTrimming ==
  spc = "done" =>
    /\ CleanLines => JoinLines(segments) = splitText
    /\ Inked(JoinLines(segments)) = Inked(splitText)

\* C22 witness: a text of clean lines was split into several segments.
C22_Witness ==
  /\ spc = "done"
  /\ CleanLines
  /\ Len(segments) >= 2
  /\ \E k \in 1..Len(segments) : Len(Split(segments[k])) >= 2

\* The messages the loop held, closed or not, before trimming, that are not
\* empty
RawMessages == {closed[k].raw : k \in 1..Len(closed)} \cup {currentMessage}

\* Text s is a line of the input
IsLine(s) == \E j \in 1..Len(splitLines) : splitLines[j] = s

\* C23: no returned segment is longer than maxLength unless it consists of a
\* single input line that is itself longer than maxLength; the lines are
\* accumulated greedily: a message is closed only when appending the next line
\* and its separator would exceed maxLength, and a message to which a line was
\* appended does not exceed maxLength.
C23_BoundedAndGreedy ==
  /\ \A k \in 1..Len(segments) :
       \/ Len(segments[k]) <= maxLength
       \/ \E j \in 1..Len(splitLines) :
            Len(splitLines[j]) > maxLength /\ segments[k] = Trim(splitLines[j])
  /\ \A k \in 1..Len(closed) :
       /\ Len(closed[k].raw) > 0
       /\ Len(closed[k].raw) + 1 + Len(splitLines[closed[k].at]) > maxLength
  /\ \A raw \in RawMessages : Len(raw) <= maxLength \/ IsLine(raw)

\* C23 witness: the split closed a message that was as long as maxLength,
\* and returned a segment longer than maxLength.
C23_Witness ==
  /\ spc = "done"
  /\ \E k \in 1..Len(closed) : Len(closed[k].raw) = maxLength
  /\ \E k \in 1..Len(segments) : Len(segments[k]) > maxLength

\* The lines of a sequence that are not empty
NonEmpty(ls) == SelectSeq(ls, LAMBDA l : l # <<>>)

\* The lines of a sequence without the white space at their ends, those that
\* hold nothing else left out
Trimmed(ls) == NonEmpty([j \in 1..Len(ls) |-> Trim(ls[j])])

\* C24 as stated: every input line appears whole within one segment, in the
\* order of the input; a line longer than maxLength is a segment of its own;
\* an empty input yields no segment.
C24_WholeLines ==
  spc = "done" =>
    /\ NonEmpty(LinesOf(segments)) = NonEmpty(splitLines)
    /\ \A j \in 1..Len(splitLines) :
         Len(splitLines[j]) > maxLength => \E k \in 1..Len(segments) : segments[k] = splitLines[j]
    /\ splitText = <<>> => segments = <<>>

\* C24: no line is split: the lines of the segments are the lines of the
\* input, in the same order, up to the white space trimmed at the ends of a
\* segment (a line of white space only may be dropped); a line longer than
\* maxLength is, trimmed, a segment of its own unless it holds white space
\* only; an empty input yields no segment.
C24_WholeLinesUpToTrimming ==
  spc = "done" =>
    /\ Trimmed(LinesOf(segments)) = Trimmed(splitLines)
    /\ \A j \in 1..Len(splitLines) :
         Len(splitLines[j]) > maxLength /\ Trim(splitLines[j]) # <<>>
           => \E k \in 1..Len(segments) : segments[k] = Trim(splitLines[j])
    /\ splitText = <<>> => segments = <<>>

\* C24 witness: a text with a line longer than maxLength and a line that
\* begins with white space was split into several segments.
C24_Witness ==
  /\ spc = "done"
  /\ Len(segments) >= 2
  /\ \E j \in 1..Len(splitLines) : Len(splitLines[j]) > maxLength
  /\ \E j \in 1..Len(splitLines) : Trim(splitLines[j]) # <<>> /\ Head(splitLines[j]) \in WhiteSpace

(***************************************************************************)
(* Claims on concurrent invocations                                        *)
(***************************************************************************)
\* Invocations d and e both read the commands collection when it held the
\* same records, and both lookups succeeded
ReadTogether(d, e) ==
  \E i \in StepsOf(d, "resolved") : \E j \in StepsOf(e, "resolved") :
    /\ elog[d][i].ok /\ elog[e][j].ok
    /\ elog[d][i].seen = elog[e][j].seen

\* The selection of invocation e for conversation k, if it made one
SelectionsOf(e, k) ==
  {elog[e][i].of : i \in {j \in StepsOf(e, "selected") : elog[e][j].chat = k}}

\* C25: nothing keeps two invocations under way at the same time apart: when
\* both read the watermark before the record of either was stored, they hold
\* the same watermark, and each selects for a conversation the same messages
\* as the other.
C25_ConcurrentTriggersSelectTheSame ==
  \A d \in Invocations : \A e \in Invocations :
    d # e /\ ReadTogether(d, e) =>
      /\ eWatermark[d] = eWatermark[e]
      /\ \A k \in 1..Len(chats) : \A x \in SelectionsOf(d, k) : \A y \in SelectionsOf(e, k) : x = y

\* C25 witness: two invocations read the watermark before the record of
\* either was stored, both stored their record, and both summarized the same
\* messages of a conversation and delivered their digest.
C25_Witness ==
  \E d \in Invocations : \E e \in Invocations :
    /\ d # e /\ ReadTogether(d, e)
    /\ StepsOf(d, "appended") # {} /\ StepsOf(e, "appended") # {}
    /\ StepsOf(d, "delivered") # {} /\ StepsOf(e, "delivered") # {}
    /\ \E k \in 1..Len(chats) : \E x \in SelectionsOf(d, k) :
         x # <<>> /\ x \in SelectionsOf(e, k)

(***************************************************************************)
(* Claims on the order of a run                                            *)
(***************************************************************************)
\* The external calls of the run that were made and have not completed
InFlight ==
  Cardinality(Steps("invoke"))
    - Cardinality(Steps("ok") \cup Steps("throttled") \cup Steps("failed"))

\* C26: a run is strictly sequential and in supply order: at most one
\* generation call is in flight; the conversations are taken one after the
\* other in the order supplied, the next one only when the generation for the
\* one before has returned; a batch starts only when the digest of every batch
\* before it has been delivered; the entries of a digest are in supply order.
C26_StrictlySequential ==
  /\ InFlight \in {0, 1}
  /\ \A q \in 1..Len(processed) :
       processed[q].chat = q /\ processed[q].batch <= Len(batches)
  /\ \A i \in Steps("enter") : \A j \in Steps("enter") :
       i < j => /\ trace[i].arg < trace[j].arg
                /\ \E r \in Steps("return") : i < r /\ r < j
  /\ \A i \in Steps("enter") : trace[i].arg <= Len(processed)
  /\ gpc # "idle" => \E i \in Steps("enter") : trace[i].arg = Len(processed)
  /\ \A d \in Digests :
       /\ \A a \in 1..Len(deliveries[d].entries) : \A b \in 1..Len(deliveries[d].entries) :
            a < b => deliveries[d].entries[a].chat < deliveries[d].entries[b].chat
       /\ deliveries[d].batch <= Len(batches)
       /\ deliveries[d].batch < Len(batches) => deliveries[d].result = "ok"
       /\ deliveries[d].result = "pending" => rpc = "delivering"

\* C26 witness: a run of two batches came to its end after it generated a
\* summary in each and delivered both digests.
C26_Witness ==
  /\ rpc = "done"
  /\ Len(batches) = 2
  /\ DigestsOf(1) # {} /\ DigestsOf(2) # {}
  /\ Cardinality(Steps("enter")) = 2

(***************************************************************************)
(* Claims on the end of a run                                              *)
(***************************************************************************)
\* C27 as stated: when every awaited operation completes, a run comes to its
\* end, and it ends in one of two ways: all its batches are processed, or it
\* stopped at an unrecoverable generation error.
C27_EndsInOneOfTwoWays ==
  <>(rpc = "done" \/ (rpc = "aborted" /\ runError.kind = "error"))

\* When every awaited operation completes, a run comes to its end
RunTerminates == <>(rpc \in {"done", "aborted"})

(***************************************************************************)
(* Claims on the order of the selected messages                            *)
(***************************************************************************)
\* The messages of s that carry a timestamp are in non-decreasing order of it
Chronological(s) ==
  \A i \in 1..Len(s) : \A j \in 1..Len(s) :
    i < j /\ s[i].timestamp # NoTimestamp /\ s[j].timestamp # NoTimestamp
      => s[i].timestamp <= s[j].timestamp

\* C28: the messages selected for a conversation are in chronological order,
\* on both paths, with a watermark and without one.
C28_SelectedChronological ==
  selStage = "selected" => Chronological(selMessages)

\* On the path of processChatsInBatches, and on the other path when there is
\* no watermark, the selected messages are in chronological order
ChronologicalWhereSorted ==
  selStage = "selected" /\ (selPath = "direct" \/ selWatermark = NoWatermark)
    => Chronological(selMessages)

(***************************************************************************)
(* Claims on the batch size and the limiter                                *)
(***************************************************************************)
\* The run is over one batch of the handler's size under the limiter of the
\* generation client, and every external call so far returned text
FullBatchFirstAttempts ==
  /\ Len(chats) = HandlerBatchSize /\ batchSize = HandlerBatchSize
  /\ \A k \in 1..Len(chats) : chats[k].messages # <<>>
  /\ Steps("throttled") = {} /\ Steps("failed") = {}

WithoutTrigger(store) == SelectSeq(store, LAMBDA msg : ~IsTrigger(msg.text))

\* The run is over a single conversation whose stored messages include the
\* trigger command, and there is no earlier record of the command
SingleConversation ==
  /\ Len(chats) = 1
  /\ lastSummaryTimestamp = NoWatermark
  /\ \E j \in 1..Len(chats[1].messages) : IsTrigger(chats[1].messages[j].text)

\* Every digest of the run fits in the default maxLength
DigestsFit ==
  \A d \in Digests :
    Len(DigestText(deliveries[d].entries, deliveries[d].batch, totalBatches)) <= DefaultMaxLength

\* What C30 states of a run that came to its end: the conversation's messages
\* other than the command were selected, one generation call was made, and
\* the digest went out as one reply of one message, with no push
OneCallOneReply ==
  /\ Len(processed) = 1
  /\ processed[1].selected = WithoutTrigger(chats[1].messages)
  /\ Cardinality(Steps("enter")) = 1
  /\ Len(deliveries) = 1
  /\ deliveries[1].op = "reply" /\ deliveries[1].what = "digest"
  /\ deliveries[1].messages = 1
  /\ Len(deliveries[1].entries) = 1

SplitAgrees ==
  spc = "done" => segments = SplitIntoMessages(splitText, maxLength)

(***************************************************************************)
(* Claims on the handler of lines 1545-1709                                *)
(***************************************************************************)
\* The handler replied with a summary
Summarized == hpc = "done" /\ deliveries # <<>> /\ deliveries[Len(deliveries)].what = "summary"

\* The messages the conversation held before the event's own message
BeforeCommand == SubSeq(selStore, 1, Len(selStore) - 1)

\* C31: the summary that /summarize produces is made of the last 20 messages
\* of the conversation the command was sent in, counted with the command's
\* own message or without it.
C31_SummarizesLast20 ==
  Summarized =>
    \/ selMessages = LastN(BeforeCommand, SummaryFetchLimit)
    \/ selMessages = LastN(selStore, SummaryFetchLimit)

(***************************************************************************)
(* Claims on the slots of the external calls                               *)
(***************************************************************************)
\* The steps of the history at which the external call was made, and the
\* waitForSlot calls that were granted a slot
Invokes == {i \in 1..Len(trace) : trace[i].ev = "invoke"}
GrantedCalls == {k \in 1..Len(calls) : calls[k].granted # NotGranted}

\* C32: every external call generateContentWithRetry makes, in a first
\* attempt or a retry, comes after a waitForSlot call of the same attempt
\* that was granted a slot no later and that no other external call used; so
\* the external calls made never outnumber the slots granted.
C32_OwnSlotBeforeEveryCall ==
  /\ \A i \in Invokes :
       LET n == Cardinality({j \in Invokes : j <= i}) IN
       /\ n <= Len(calls)
       /\ calls[n].granted # NotGranted
       /\ calls[n].issued <= calls[n].granted /\ calls[n].granted <= trace[i].at
       /\ \E j \in 1..(i - 1) :
            /\ trace[j].ev = "acquire" /\ trace[j].attempt = trace[i].attempt
            /\ trace[j].at = calls[n].issued
            /\ \A l \in (j + 1)..(i - 1) : trace[l].ev \notin {"acquire", "invoke"}
  /\ Cardinality(Invokes) <= Cardinality(GrantedCalls)

\* C32 witness: a retry made its external call after its own waitForSlot call
\* was suspended and then granted a slot.
C32_Witness ==
  \E i \in Invokes :
    /\ trace[i].attempt >= 2
    /\ calls[Cardinality({j \in Invokes : j <= i})].suspends > 0
    /\ calls[Cardinality({j \in Invokes : j <= i})].granted # NotGranted

(***************************************************************************)
(* Claims on messages without timestamp                                    *)
(***************************************************************************)
\* C33: when the watermark is present, no message without a timestamp is
\* among the messages selected for a conversation, on the path of
\* processChatsInBatches and on that of processCollectionGroupChatsInBatches.
C33_UnstampedNeverSelected ==
  (selStage = "selected" /\ selWatermark # NoWatermark) =>
    \A j \in 1..Len(selMessages) : selMessages[j].timestamp # NoTimestamp

\* C33 witness: with a watermark, a conversation that holds a plain message
\* without timestamp and a newer stamped one was selected from, and the
\* stamped one was taken.
C33_Witness ==
  /\ selStage = "selected"
  /\ selWatermark # NoWatermark
  /\ \E i \in 1..Len(selStore) :
       selStore[i].timestamp = NoTimestamp /\ ~IsTrigger(selStore[i].text)
  /\ selMessages # <<>>

(***************************************************************************)
(* Claims on the limiter's list                                            *)
(***************************************************************************)
\* C34: whatever waitForSlot calls were issued, one after the other or
\* interleaved, the recorded request timestamps are in non-decreasing order,
\* the oldest first, and there are never more than maxRequests of them.
C34_RequestsOrderedAndBounded ==
  maxRequests >= 1 =>
    /\ \A i \in 1..Len(requests) : \A j \in i..Len(requests) : requests[i] <= requests[j]
    /\ Len(requests) <= maxRequests

\* C34 witness: the list is full with requests recorded at different times,
\* the newest by a caller that was suspended and woken while another caller
\* had issued a call of its own.
C34_Witness ==
  /\ maxRequests >= 2
  /\ Len(requests) = maxRequests
  /\ requests[1] < requests[Len(requests)]
  /\ \E k \in 1..Len(calls) :
       /\ calls[k].suspends > 0
       /\ calls[k].granted = requests[Len(requests)]
       /\ \E l \in 1..Len(calls) : l # k /\ calls[k].issued <= calls[l].issued
                                         /\ calls[l].issued <= calls[k].granted

(***************************************************************************)
(* Claims on the handling of one event                                     *)
(***************************************************************************)
\* The reply operations made with the event's token
TokenReplies ==
  {i \in 1..Len(deliveries) : deliveries[i].op = "reply" /\ deliveries[i].to = event.replyToken}

\* C35: while one event is handled its reply token is used in at most one
\* reply operation, whether for the digest of batch 1, the notice of an
\* aborted run, the reply to a code, or the echo of the outer catch block.
C35_TokenUsedAtMostOnce == Cardinality(TokenReplies) <= 1

(***************************************************************************)
(* Claims on successive invocations                                        *)
(***************************************************************************)
\* Invocation e ran through with every step succeeding: the watermark was
\* read, the record stored, and the digest delivered
RanThrough(e) ==
  /\ epc[e] = "done"
  /\ \A i \in StepsOf(e, "resolved") : elog[e][i].ok
  /\ StepsOf(e, "appended") # {}
  /\ StepsOf(e, "delivered") # {}

\* The messages of conversation k that invocation e summarized
SummarizedBy(e, k) ==
  UNION {{sel[j] : j \in 1..Len(sel)} : sel \in SelectionsOf(e, k)}

\* C36: of two invocations that ran through one after the other, the second
\* arriving after the first had ended, the second summarizes no message that
\* the first summarized, whenever the message was stored.
C36_NoMessageInBothDigests ==
  \A d \in Invocations : \A e \in Invocations :
    (d < e /\ RanThrough(d) /\ RanThrough(e)) =>
      \A k \in 1..Len(chats) : SummarizedBy(d, k) \cap SummarizedBy(e, k) = {}

\* C37: every event whose text is the summarize command is answered: sooner or
\* later the handler makes a delivery call, be it for a digest, for a notice
\* that there is nothing to summarize, or for the notice of an error.
C37_TriggerIsAnswered == IsTrigger(messageText) => <>(deliveries # <<>>)

\* The handler comes to its end
HandleTerminates == <>(hpc = "done")

\* C38: handling an event whose text is the summarize command writes nothing
\* to the store but the Trigger Record: no message is appended and no
\* conversation is created or updated, whether the run completes or aborts.
C38_OnlyTriggerRecordWritten ==
  IsTrigger(messageText) => \A i \in 1..Len(writes) : writes[i].collection = "commands"

\* The part of C38 about the aborted run: once the catch block of the
\* /summarize branch has replied, only the Trigger Record was written
AbortedRunWritesRecordOnly ==
  (IsTrigger(messageText) /\ rpc = "aborted") =>
    \A i \in 1..Len(writes) : writes[i].collection = "commands"

(***************************************************************************)
(* Claims on the segments of splitIntoMessages                             *)
(***************************************************************************)
\* A text that has no white space at either end
NoOuterWhiteSpace(t) == t = <<>> \/ (t[1] \notin WhiteSpace /\ t[Len(t)] \notin WhiteSpace)

\* C39: whatever the text and whatever maxLength >= 1, every segment that
\* splitIntoMessages returns holds at least one character and neither begins
\* nor ends with white space.
C39_SegmentsNonEmptyAndTrimmed ==
  (spc = "done" /\ maxLength >= 1) =>
    \A k \in 1..Len(segments) : segments[k] # <<>> /\ NoOuterWhiteSpace(segments[k])

\* The part of C39 about trimming: no segment begins or ends with white space
SegmentsTrimmed ==
  spc = "done" => \A k \in 1..Len(segments) : NoOuterWhiteSpace(segments[k])

(***************************************************************************)
(* Claims on a failed lookup of the watermark                              *)
(***************************************************************************)
\* The steps in which the lookup of invocation e failed
FailedLookups(e) == {i \in StepsOf(e, "resolved") : ~elog[e][i].ok}

\* C40: when the query for the most recent Trigger Record fails,
\* getLastSummaryTimestamp returns null: the handler is not ended by it but
\* goes on to store its record, and the run selects for every conversation
\* what a first-ever trigger selects (the selection without watermark, of
\* the last 30 messages), whatever records the store holds.
C40_FailedLookupIsFirstTrigger ==
  \A e \in Invocations : \A i \in FailedLookups(e) :
    /\ elog[e][i].wm = NoWatermark
    /\ eWatermark[e] = NoWatermark
    /\ epc[e] \in {"aborted", "done", "processing", "listing"} =>
         \E j \in (i + 1)..Len(elog[e]) : elog[e][j].ev \in {"appended", "saveFailed"}
    /\ \A j \in StepsOf(e, "selected") :
         /\ elog[e][j].wm = NoWatermark
         /\ elog[e][j].of = SelectDirect(chats[elog[e][j].chat].messages, NoWatermark)

\* C40 witness: the lookup of an invocation failed while the store held a
\* Trigger Record; the run went through every conversation, summarized a
\* message older than that record, and delivered.
C40_Witness ==
  \E e \in Invocations : \E i \in FailedLookups(e) :
    /\ elog[e][i].seen >= 1
    /\ epc[e] = "done"
    /\ StepsOf(e, "delivered") # {}
    /\ \A k \in 1..Len(chats) : \E j \in StepsOf(e, "selected") : elog[e][j].chat = k
    /\ \E j \in StepsOf(e, "selected") : \E n \in 1..Len(elog[e][j].of) :
         elog[e][j].of[n].timestamp <= LatestTimestamp(commands, elog[e][i].seen)

====
